---- MODULE Spec2Model ----
(***************************************************************************)
(* A model of the creative automation pipeline: the aspect-ratio table,    *)
(* the cover-fit resize, the variation loop of CreativeComposer with its   *)
(* callers (pipeline.main and batch_create_variations), and the compliance *)
(* checker.                                                                *)
(***************************************************************************)
EXTENDS Integers, Sequences, FiniteSets, TLC

(***************************************************************************)
(* Bounds of the model.                                                    *)
(***************************************************************************)
\* source images have every width and height of 1..MaxSrcDim, and ExtraDims
MaxSrcDim == 24

\* further source widths and heights: common sizes, and sizes at which the
\* double-precision scale falls short of the exact quotient
ExtraDims == {62, 93, 99, 176, 535, 1024, 1080, 1920}

SrcDims == (1..MaxSrcDim) \cup ExtraDims

\* a message is made of at most MaxFragments fragments
MaxFragments == 3

\* an image file holds at most MaxPixelColours distinct pixel colours
MaxPixelColours == 2

\* a ratio list supplied by a caller or a brief has at most MaxRatios names
MaxRatios == 2

VARIABLES
    rz,         \* the last resize_for_ratio call: its arguments and its result
    legal,      \* the last check_legal_content call: its text and its result
    comp,       \* the last run_full_compliance_check call: arguments and outcome
    lk,         \* the last AspectRatios lookup: the function, the name, the result
    ct,         \* the last check_text_contrast call: its colours and its result
    txt,        \* the last direct add_text_overlay call: arguments and geometry
    args,       \* what the run was started with: the caller, the brief, the ratio list
    composer,   \* the CreativeComposer: its brand_config logo file and self.logo
    cv,         \* the create_variations call in progress: position and locals
    fs,         \* the output folder: the state of every artifact path
    run,        \* the caller's loop over the products: position and locals
    ovl,        \* the last direct add_logo_overlay call: its arguments and result
    folder,     \* the asset folder: the file at every asset path
    am,         \* the AssetManager call in progress: arguments, position, result
    gen         \* the generation step of main: products, pool, counters

vars == <<rz, legal, comp, lk, ct, txt, args, composer, cv, fs, run, ovl, folder, am, gen>>

pureVars == <<rz, legal, comp, lk, ct, txt>>

runVars == <<args, composer, cv, fs, run, ovl>>

assetVars == <<folder, am, gen>>

(***************************************************************************)
(* constants.py: AspectRatios                                              *)
(***************************************************************************)
\* the keys of OUTPUT_DIMENSIONS, in the order of the dict literal
OutputNames == <<"1x1", "9x16", "16x9", "4x5", "2x3">>

OUTPUT_DIMENSIONS ==
    [n \in {"1x1", "9x16", "16x9", "4x5", "2x3"} |->
        CASE n = "1x1"  -> <<1080, 1080>>
          [] n = "9x16" -> <<1080, 1920>>
          [] n = "16x9" -> <<1920, 1080>>
          [] n = "4x5"  -> <<1080, 1350>>
          [] n = "2x3"  -> <<1080, 1620>>]

\* a ratio name that is in no table
UnknownRatio == "21x9"

RatioNames == DOMAIN OUTPUT_DIMENSIONS \cup {UnknownRatio}

\* dict.get(format_name, (1080, 1080))
get_output_size(format_name) ==
    IF format_name \in DOMAIN OUTPUT_DIMENSIONS
    THEN OUTPUT_DIMENSIONS[format_name]
    ELSE <<1080, 1080>>

\* list(cls.OUTPUT_DIMENSIONS.keys())
all_formats == OutputNames

(***************************************************************************)
(* Python float arithmetic.  int(a * (num / den)) is computed in IEEE-754  *)
(* doubles: num / den is rounded, the product is rounded again, and int()  *)
(* truncates.  For the operands below the result is one less than the      *)
(* exact floor(a * num / den) (the exact quotient is an integer and the    *)
(* rounded product lies just under it); for every other operand of the     *)
(* model's domain it equals the exact floor.                               *)
(***************************************************************************)
FloatOneShort ==
    { <<11, 1080, 99>>, <<22, 1080, 99>>, <<93, 1080, 62>>, <<176, 1080, 99>>,
      <<535, 1080, 535>>, <<19, 1620, 19>>, <<93, 1620, 93>>, <<11, 1920, 11>>,
      <<11, 1920, 22>>, <<11, 1920, 176>>, <<13, 1920, 13>>, <<22, 1920, 11>>,
      <<22, 1920, 22>>, <<22, 1920, 176>>, <<176, 1920, 11>>, <<176, 1920, 22>>,
      <<176, 1920, 176>>, <<281, 150, 281>> }

\* int(a * (num / den))
IntScale(a, num, den) ==
    ((a * num) \div den) - (IF <<a, num, den>> \in FloatOneShort THEN 1 ELSE 0)

(***************************************************************************)
(* creative_composer.py: resize_for_ratio                                  *)
(***************************************************************************)
\* Image.crop(box): the region's size is (right - left, bottom - top), also
\* when the box reaches outside the image
CropSize(left, top, right, bottom) == <<right - left, bottom - top>>

\* a bug: the crop keeps the scaled width instead of the target width
resize_for_ratio_NoCropWidth(image, ratio) ==
    LET target_width  == get_output_size(ratio)[1]
        target_height == get_output_size(ratio)[2]
        wider == image.width * target_height > target_width * image.height
        new_width  == IF wider THEN IntScale(image.width, target_height, image.height)
                               ELSE target_width
        new_height == IF wider THEN target_height
                               ELSE IntScale(image.height, target_width, image.width)
        left == (new_width - target_width) \div 2
        top  == (new_height - target_height) \div 2
        size == CropSize(left, top, left + new_width, top + target_height)
    IN  [new_width |-> new_width, new_height |-> new_height,
         left |-> left, top |-> top, width |-> size[1], height |-> size[2]]

\* a bug: the image is stretched to the target size
resize_for_ratio_Stretch(image, ratio) ==
    LET target_width  == get_output_size(ratio)[1]
        target_height == get_output_size(ratio)[2]
    IN  [new_width |-> target_width, new_height |-> target_height,
         left |-> 0, top |-> 0, width |-> target_width, height |-> target_height]

\* current_ratio > target_ratio compares two double quotients; on the model's
\* domain it agrees with the exact comparison w * th > tw * h
resize_for_ratio(image, ratio) ==
    LET target_width  == get_output_size(ratio)[1]
        target_height == get_output_size(ratio)[2]
        wider == image.width * target_height > target_width * image.height
        new_width  == IF wider THEN IntScale(image.width, target_height, image.height)
                               ELSE target_width
        new_height == IF wider THEN target_height
                               ELSE IntScale(image.height, target_width, image.width)
        left == (new_width - target_width) \div 2
        top  == (new_height - target_height) \div 2
        size == CropSize(left, top, left + target_width, top + target_height)
    IN  [new_width |-> new_width, new_height |-> new_height,
         left |-> left, top |-> top, width |-> size[1], height |-> size[2]]

RzIdle == [st |-> "idle"]

LegalIdle == [st |-> "idle"]

CompIdle == [st |-> "idle"]

LkIdle == [st |-> "idle"]

CtIdle == [st |-> "idle"]

TxtIdle == [st |-> "idle"]

\* no composer was built and no run was started
\* no asset folder is looked at, no AssetManager call and no generation step
NoFolder == <<>>

AmIdle == [st |-> "idle"]

GenIdle == [st |-> "idle"]

RunIdle ==
    /\ args = [mode |-> "none"]
    /\ composer = [logo_file |-> [kind |-> "none"], logo |-> [kind |-> "None"]]
    /\ cv = [st |-> "idle"]
    /\ fs = <<>>
    /\ run = [pc |-> "idle"]
    /\ ovl = [st |-> "idle"]

\* a caller resizes an image of any size for any ratio name
ResizeCall ==
    /\ rz.st = "idle"
    /\ UNCHANGED <<legal, comp, lk, ct, txt>>
    /\ UNCHANGED <<runVars, assetVars>>
    /\ \E w \in SrcDims, h \in SrcDims, r \in RatioNames :
        rz' = [st |-> "done", image |-> [width |-> w, height |-> h], ratio |-> r,
               out |-> resize_for_ratio([width |-> w, height |-> h], r)]

InitResize ==
    /\ rz = RzIdle
    /\ legal = LegalIdle
    /\ comp = CompIdle
    /\ lk = LkIdle
    /\ ct = CtIdle
    /\ txt = TxtIdle
    /\ folder = NoFolder
    /\ am = AmIdle
    /\ gen = GenIdle
    /\ RunIdle

NextResize == ResizeCall

SpecResize == InitResize /\ [][NextResize]_vars

\* C1: for every source image (width >= 1, height >= 1) and every known ratio
\* name, the image resize_for_ratio returns has exactly the width and height
\* of get_output_size(ratio).
C1_ResizeExactSize ==
    (rz.st = "done" /\ rz.ratio \in DOMAIN OUTPUT_DIMENSIONS) =>
        <<rz.out.width, rz.out.height>> = get_output_size(rz.ratio)

\* a resize whose scaled image is one pixel short of the target height (the
\* crop box reaches outside it) still returned the target size
C1_Witness ==
    /\ rz.st = "done"
    /\ rz.ratio = "1x1"
    /\ rz.image = [width |-> 535, height |-> 535]
    /\ rz.out.new_height = 1079
    /\ <<rz.out.width, rz.out.height>> = <<1080, 1080>>

(***************************************************************************)
(* Strings are sequences of one-character strings.                         *)
(***************************************************************************)
Uppers ==
    <<"A", "B", "C", "D", "E", "F", "G", "H", "I", "J", "K", "L", "M",
      "N", "O", "P", "Q", "R", "S", "T", "U", "V", "W", "X", "Y", "Z">>

Lowers ==
    <<"a", "b", "c", "d", "e", "f", "g", "h", "i", "j", "k", "l", "m",
      "n", "o", "p", "q", "r", "s", "t", "u", "v", "w", "x", "y", "z">>

\* one character of str.lower(): an upper-case letter becomes its lower-case
\* letter, every other character stays
LowerChar(c) ==
    IF \E i \in 1..Len(Uppers) : Uppers[i] = c
    THEN Lowers[CHOOSE i \in 1..Len(Uppers) : Uppers[i] = c]
    ELSE c

\* str.lower()
LowerStr(s) == [i \in 1..Len(s) |-> LowerChar(s[i])]

\* Python's `t in m` on strings
IsSubstring(t, m) ==
    \E i \in 0..(Len(m) - Len(t)) : SubSeq(m, i + 1, i + Len(t)) = t

RECURSIVE Concat(_)
\* the concatenation of a sequence of strings
Concat(ss) == IF ss = <<>> THEN <<>> ELSE Head(ss) \o Concat(Tail(ss))

(***************************************************************************)
(* compliance_checker.py: check_legal_content                              *)
(***************************************************************************)
PROHIBITED_WORDS ==
    << <<"f", "r", "e", "e">>,
       <<"g", "u", "a", "r", "a", "n", "t", "e", "e">>,
       <<"g", "u", "a", "r", "a", "n", "t", "e", "e", "d">>,
       <<"m", "i", "r", "a", "c", "l", "e">>,
       <<"c", "u", "r", "e">>,
       <<"c", "u", "r", "e", "s">>,
       <<"c", "e", "r", "t", "i", "f", "i", "e", "d">>,
       <<"a", "p", "p", "r", "o", "v", "e", "d">>,
       <<"w", "i", "n", "n", "e", "r">>,
       <<"b", "e", "s", "t">>,
       <<"n", "u", "m", "b", "e", "r", " ", "o", "n", "e">>,
       <<"#", "1">>,
       <<"r", "i", "s", "k", "-", "f", "r", "e", "e">>,
       <<"n", "o", " ", "r", "i", "s", "k">>,
       <<"p", "r", "o", "v", "e", "n">>,
       <<"s", "c", "i", "e", "n", "t", "i", "f", "i", "c", " ",
         "b", "r", "e", "a", "k", "t", "h", "r", "o", "u", "g", "h">>,
       <<"s", "e", "c", "r", "e", "t">>,
       <<"b", "a", "n", "n", "e", "d">>,
       <<"i", "l", "l", "e", "g", "a", "l">>,
       <<"F", "D", "A", " ", "a", "p", "p", "r", "o", "v", "e", "d">> >>

\* the violation entry appended for a matched word
Violation(word) ==
    [term |-> word, reason |-> "Prohibited marketing claim", severity |-> "high"]

\* the violations list: one entry per word of PROHIBITED_WORDS, in list order,
\* that occurs in the lower-cased text (the word itself is taken as written)
LegalViolations(text) ==
    LET text_lower == LowerStr(text)
        hit == SelectSeq(PROHIBITED_WORDS, LAMBDA word : IsSubstring(word, text_lower))
    IN  [i \in 1..Len(hit) |-> Violation(hit[i])]

\* a bug: the text counts as compliant with up to one violation
check_legal_content_OffByOne(text) ==
    LET violations == LegalViolations(text)
    IN  [compliant |-> Len(violations) <= 1, violations |-> violations,
         text_checked |-> text]

check_legal_content(text) ==
    LET violations == LegalViolations(text)
    IN  [compliant |-> Len(violations) = 0, violations |-> violations,
         text_checked |-> text]

\* "This is a guaranteed miracle cure"
Example1 ==
    <<"T", "h", "i", "s", " ", "i", "s", " ", "a", " ",
      "g", "u", "a", "r", "a", "n", "t", "e", "e", "d", " ",
      "m", "i", "r", "a", "c", "l", "e", " ", "c", "u", "r", "e">>

\* "Get fit this spring"
Example2 ==
    <<"G", "e", "t", " ", "f", "i", "t", " ",
      "t", "h", "i", "s", " ", "s", "p", "r", "i", "n", "g">>

\* "FDA approved", "fda ", "approved", "Free", "#1", " ", "cure", "s",
\* "guarantee", "d"
Fragments ==
    { <<"F", "D", "A", " ", "a", "p", "p", "r", "o", "v", "e", "d">>,
      <<"f", "d", "a", " ">>,
      <<"a", "p", "p", "r", "o", "v", "e", "d">>,
      <<"F", "r", "e", "e">>,
      <<"#", "1">>,
      <<" ">>,
      <<"c", "u", "r", "e">>,
      <<"s">>,
      <<"g", "u", "a", "r", "a", "n", "t", "e", "e">>,
      <<"d">> }

\* the campaign messages of the model: the two example messages and every
\* concatenation of at most MaxFragments fragments (the empty message too)
Messages ==
    {Example1, Example2} \cup
    UNION { { Concat(parts) : parts \in [1..n -> Fragments] } : n \in 0..MaxFragments }

\* a caller checks a campaign message
LegalCall ==
    /\ legal.st = "idle"
    /\ \E m \in Messages :
        legal' = [st |-> "done", text |-> m, out |-> check_legal_content(m)]
    /\ UNCHANGED <<rz, comp, lk, ct, txt>>
    /\ UNCHANGED <<runVars, assetVars>>

InitLegal ==
    /\ rz = RzIdle
    /\ legal = LegalIdle
    /\ comp = CompIdle
    /\ lk = LkIdle
    /\ ct = CtIdle
    /\ txt = TxtIdle
    /\ folder = NoFolder
    /\ am = AmIdle
    /\ gen = GenIdle
    /\ RunIdle

NextLegal == LegalCall

SpecLegal == InitLegal /\ [][NextLegal]_vars

\* the terms of the returned violations
ViolationTerms(out) == { out.violations[i].term : i \in 1..Len(out.violations) }

\* C6: check_legal_content reports exactly the terms of PROHIBITED_WORDS that
\* occur in the message under case-insensitive comparison: a term t is in
\* the violations iff lower(t) is a substring of lower(message).
C6_CaseInsensitiveMatch ==
    legal.st = "done" =>
        \A k \in 1..Len(PROHIBITED_WORDS) :
            (PROHIBITED_WORDS[k] \in ViolationTerms(legal.out))
                <=> IsSubstring(LowerStr(PROHIBITED_WORDS[k]), LowerStr(legal.text))

\* C7: check_legal_content returns compliant = true iff its violations list
\* is empty; "This is a guaranteed miracle cure" gives at least two
\* violations and compliant = false; "Get fit this spring" gives compliant =
\* true.
C7_CompliantIffNoViolation ==
    legal.st = "done" =>
        /\ legal.out.compliant <=> (legal.out.violations = <<>>)
        /\ legal.out.text_checked = legal.text
        /\ legal.text = Example1 =>
              (Len(legal.out.violations) >= 2 /\ ~legal.out.compliant)
        /\ legal.text = Example2 => legal.out.compliant

\* the first example message was checked: guarantee, guaranteed, miracle and
\* cure are reported
C7_Witness ==
    /\ legal.st = "done"
    /\ legal.text = Example1
    /\ Len(legal.out.violations) = 4
    /\ ~legal.out.compliant

(***************************************************************************)
(* compliance_checker.py: the image checks.  A file is missing, unreadable *)
(* (Image.open raises) or an image with a width and a set of pixel         *)
(* colours; a colour is <<r, g, b>> with channels in 0..255.  A tri-state  *)
(* verdict is "True", "False" or "None".                                   *)
(***************************************************************************)
Black  == <<0, 0, 0>>
White  == <<255, 255, 255>>
Rust   == <<230, 60, 30>>
Blue   == <<52, 152, 219>>

PixelColours == {Black, White, Rust, Blue}

\* the sets of pixel colours an image may hold
ColourSets ==
    { S \in SUBSET PixelColours : Cardinality(S) >= 1 /\ Cardinality(S) <= MaxPixelColours }

MissingFile == [kind |-> "missing"]

UnreadableFile == [kind |-> "unreadable"]

ImageFile(w, px) == [kind |-> "image", width |-> w, pixels |-> px]

\* the rows of np.unique(..., axis=0) are in lexicographic order
LexLess(c, d) ==
    \/ c[1] < d[1]
    \/ c[1] = d[1] /\ c[2] < d[2]
    \/ c[1] = d[1] /\ c[2] = d[2] /\ c[3] < d[3]

\* unique_logo_colors[:k]
FirstColours(S, k) == { c \in S : Cardinality({ d \in S : LexLess(d, c) }) < k }

\* (img_colors - color) ** 2 summed over the channels, on uint8 arrays: the
\* difference and its square wrap modulo 256, the sum is taken in 64 bits
WrappedSquareSum(p, c) ==
    LET sq(i) == (((p[i] - c[i]) % 256) * ((p[i] - c[i]) % 256)) % 256
    IN  sq(1) + sq(2) + sq(3)

\* (img_colors - np.array(target_rgb)) ** 2 summed, in 64-bit integers
SquareSum(p, c) ==
    LET sq(i) == (p[i] - c[i]) * (p[i] - c[i])
    IN  sq(1) + sq(2) + sq(3)

\* a variant: the distance is taken over the true channel differences
LogoColourMatched_TrueDistance(pixels, c) == \E p \in pixels : SquareSum(p, c) < 50 * 50

\* np.min(distances) < 50 with distances = sqrt of the wrapped sums
LogoColourMatched(pixels, c) == \E p \in pixels : WrappedSquareSum(p, c) < 50 * 50

\* compared counts the logo colours that were compared with the image
LogoNull(msg) ==
    [detected |-> "None", matched |-> 0, sampled |-> 1, compared |-> 0, message |-> msg]

\* a bug: a template of exactly 30% of the width is still compared
check_logo_presence_StrictSize(image, logo) ==
    IF logo.kind \in {"none", "missing"}
    THEN LogoNull("Logo template not available for checking")
    ELSE IF image.kind # "image" \/ logo.kind # "image"
    THEN LogoNull("Error during detection")
    ELSE IF 10 * logo.width > 3 * image.width
    THEN LogoNull("Logo template too large for detection")
    ELSE LET sample  == FirstColours(logo.pixels, 10)
             matches == Cardinality({ c \in sample : LogoColourMatched(image.pixels, c) })
             sampled == IF Cardinality(logo.pixels) < 10 THEN Cardinality(logo.pixels) ELSE 10
             detected == 2 * matches > sampled
         IN  [detected |-> IF detected THEN "True" ELSE "False",
              matched |-> matches, sampled |-> sampled,
              compared |-> Cardinality(sample),
              message |-> IF detected THEN "Logo likely present"
                                      ELSE "Logo may not be present"]

\* confidence is matched / sampled
check_logo_presence(image, logo) ==
    IF logo.kind \in {"none", "missing"}
    THEN LogoNull("Logo template not available for checking")
    ELSE IF image.kind # "image" \/ logo.kind # "image"
    THEN LogoNull("Error during detection")
    ELSE IF 10 * logo.width >= 3 * image.width
    THEN LogoNull("Logo template too large for detection")
    ELSE LET sample  == FirstColours(logo.pixels, 10)
             matches == Cardinality({ c \in sample : LogoColourMatched(image.pixels, c) })
             sampled == IF Cardinality(logo.pixels) < 10 THEN Cardinality(logo.pixels) ELSE 10
             detected == 2 * matches > sampled
         IN  [detected |-> IF detected THEN "True" ELSE "False",
              matched |-> matches, sampled |-> sampled,
              compared |-> Cardinality(sample),
              message |-> IF detected THEN "Logo likely present"
                                      ELSE "Logo may not be present"]

HexDigits ==
    <<"0", "1", "2", "3", "4", "5", "6", "7", "8", "9", "a", "b", "c", "d", "e", "f">>

IsHexDigit(c) == \E i \in 1..16 : HexDigits[i] = LowerChar(c)

HexVal(c) == (CHOOSE i \in 1..16 : HexDigits[i] = LowerChar(c)) - 1

RECURSIVE LStripHash(_)
\* hex_color.lstrip('#')
LStripHash(s) == IF s # <<>> /\ Head(s) = "#" THEN LStripHash(Tail(s)) ELSE s

\* hex_color[i:i+2] for i = 0, 2, 4: a slice is cut at the end of the string
HexSlice(h, i) == SubSeq(h, i + 1, IF i + 2 <= Len(h) THEN i + 2 ELSE Len(h))

\* int(slice, 16) raises ValueError on an empty slice or a non-digit
HexSliceOk(sl) == sl # <<>> /\ \A k \in 1..Len(sl) : IsHexDigit(sl[k])

HexSliceVal(sl) == IF Len(sl) = 1 THEN HexVal(sl[1]) ELSE 16 * HexVal(sl[1]) + HexVal(sl[2])

HexParses(hex) == \A i \in {0, 2, 4} : HexSliceOk(HexSlice(LStripHash(hex), i))

\* target_rgb
HexToRgb(hex) ==
    LET h == LStripHash(hex)
    IN  <<HexSliceVal(HexSlice(h, 0)), HexSliceVal(HexSlice(h, 2)), HexSliceVal(HexSlice(h, 4))>>

\* a bug: the distance is taken on uint8 values, as in the logo check
BrandColourFound_Wrapped(pixels, rgb) == \E p \in pixels : WrappedSquareSum(p, rgb) < 80 * 80

\* np.min(distances) < 80
BrandColourFound(pixels, rgb) == \E p \in pixels : SquareSum(p, rgb) < 80 * 80

\* [primary_color, secondary_color] without the falsy ones (None, "")
ConfiguredColours(cfg) ==
    SelectSeq(<<cfg.primary_color, cfg.secondary_color>>, LAMBDA c : c # <<>>)

ColoursNull(msg) == [compliant |-> "None", found |-> 0, checked |-> 0, message |-> msg]

\* detection_rate is found / checked
validate_brand_colors(image, cfg) ==
    LET brand_colors == ConfiguredColours(cfg)
    IN  IF brand_colors = <<>>
        THEN ColoursNull("No brand colors configured for checking")
        ELSE IF image.kind # "image"
        THEN ColoursNull("Error during validation")
        ELSE IF \E i \in 1..Len(brand_colors) : ~HexParses(brand_colors[i])
        THEN ColoursNull("Error during validation")
        ELSE LET found == SelectSeq(brand_colors,
                              LAMBDA hex : BrandColourFound(image.pixels, HexToRgb(hex)))
             IN  [compliant |-> IF Len(found) > 0 THEN "True" ELSE "False",
                  found |-> Len(found), checked |-> Len(brand_colors),
                  message |-> ""]

\* a bug: an inconclusive (None) verdict counts as a failure
run_full_compliance_check_NullFails(image, campaign_message, cfg) ==
    IF image.kind = "missing"
    THEN [st |-> "raised", error |-> "FileNotFoundError"]
    ELSE LET legal_content == check_legal_content(campaign_message)
             logo_presence == check_logo_presence(image, cfg.logo)
             brand_colors  == validate_brand_colors(image, cfg)
             legal_ok  == legal_content.compliant
             logo_ok   == logo_presence.detected
             colors_ok == brand_colors.compliant
         IN  [st |-> "returned",
              checks |-> [legal_content |-> legal_content,
                          logo_presence |-> logo_presence,
                          brand_colors |-> brand_colors],
              overall_compliant |->
                  legal_ok /\ (logo_ok = "True") /\ (colors_ok = "True")]

\* Path(image_path).stat() raises when the file is missing; the three checks
\* run on the same file; a None verdict only skips its check
run_full_compliance_check(image, campaign_message, cfg) ==
    IF image.kind = "missing"
    THEN [st |-> "raised", error |-> "FileNotFoundError"]
    ELSE LET legal_content == check_legal_content(campaign_message)
             logo_presence == check_logo_presence(image, cfg.logo)
             brand_colors  == validate_brand_colors(image, cfg)
             legal_ok  == legal_content.compliant
             logo_ok   == logo_presence.detected
             colors_ok == brand_colors.compliant
         IN  [st |-> "returned",
              checks |-> [legal_content |-> legal_content,
                          logo_presence |-> logo_presence,
                          brand_colors |-> brand_colors],
              overall_compliant |->
                  legal_ok /\ (logo_ok # "False") /\ (colors_ok # "False")]

\* "#FF5733"
HexOrange == <<"#", "F", "F", "5", "7", "3", "3">>

\* "3498db"
HexBlue == <<"3", "4", "9", "8", "d", "b">>

\* "#00FF00"
HexGreen == <<"#", "0", "0", "F", "F", "0", "0">>

\* "red"
HexMalformed == <<"r", "e", "d">>

\* "#FFF"
HexShort == <<"#", "F", "F", "F">>

\* a brand colour of the configuration; <<>> is an absent (or empty) entry
BrandColourChoices == {<<>>, HexOrange, HexBlue, HexGreen, HexMalformed, HexShort}

ImageWidths == {1080}

\* just under and exactly 30% of the image width
LogoWidths == {323, 324}

\* the artifact files the checks are run on
ArtifactFiles ==
    {MissingFile, UnreadableFile} \cup
    { ImageFile(w, px) : w \in ImageWidths, px \in ColourSets }

\* the logo template files of a brand configuration
LogoTemplates ==
    {[kind |-> "none"], MissingFile, UnreadableFile} \cup
    { ImageFile(w, px) : w \in LogoWidths, px \in ColourSets }

\* the pipeline (or any caller) runs the full check on one artifact
ComplianceCall ==
    /\ comp.st = "idle"
    /\ \E image \in ArtifactFiles, logo \in LogoTemplates,
          pc1 \in BrandColourChoices, pc2 \in BrandColourChoices,
          m \in {Example1, Example2} :
        LET cfg == [logo |-> logo, primary_color |-> pc1, secondary_color |-> pc2]
        IN  comp' = [st |-> "done", image |-> image, cfg |-> cfg, message |-> m,
                     out |-> run_full_compliance_check(image, m, cfg)]
    /\ UNCHANGED <<rz, legal, lk, ct, txt>>
    /\ UNCHANGED <<runVars, assetVars>>

InitCompliance ==
    /\ rz = RzIdle
    /\ legal = LegalIdle
    /\ comp = CompIdle
    /\ lk = LkIdle
    /\ ct = CtIdle
    /\ txt = TxtIdle
    /\ folder = NoFolder
    /\ am = AmIdle
    /\ gen = GenIdle
    /\ RunIdle

NextCompliance == ComplianceCall

SpecCompliance == InitCompliance /\ [][NextCompliance]_vars

\* C3: for every combination of the three sub-check verdicts,
\* overall_compliant = legal_ok AND (logo verdict is not false) AND (colours
\* verdict is not false): it is false only if some sub-check returned a
\* definitive false, and a null logo or colour verdict never makes it false
\* (legal fail and both null gives false, legal pass and both null gives
\* true).
C3_OverallCompliant ==
    (comp.st = "done" /\ comp.out.st = "returned") =>
        LET legal_ok == comp.out.checks.legal_content.compliant
            logo     == comp.out.checks.logo_presence.detected
            colours  == comp.out.checks.brand_colors.compliant
        IN  /\ comp.out.overall_compliant
                <=> (legal_ok /\ logo # "False" /\ colours # "False")
            /\ ~comp.out.overall_compliant
                => (~legal_ok \/ logo = "False" \/ colours = "False")
            /\ (logo = "None" /\ colours = "None")
                => (comp.out.overall_compliant <=> legal_ok)

\* the legal check passed and both image checks were inconclusive: the
\* report is compliant
C3_Witness ==
    /\ comp.st = "done"
    /\ comp.out.st = "returned"
    /\ comp.out.checks.legal_content.compliant
    /\ comp.out.checks.logo_presence.detected = "None"
    /\ comp.out.checks.brand_colors.compliant = "None"
    /\ comp.out.overall_compliant

(***************************************************************************)
(* creative_composer.py: the composer, its logo and the overlays.  An      *)
(* image is its source, its size and the layers painted on it.             *)
(***************************************************************************)
NoLogo == [kind |-> "None"]

LogoFile(w, h) == [kind |-> "image", width |-> w, height |-> h]

\* the widths and heights of the logo files
LogoDims == {1, 3, 150, 281, 300, 1000}

\* brand_config's logo file: no logo_path (or an empty one), a path that does
\* not exist, a file Image.open cannot read, or a logo of some size
LogoFiles ==
    { [kind |-> "none"], MissingFile, UnreadableFile, LogoFile(100, 100) }
        \cup { LogoFile(w, h) : w \in LogoDims, h \in LogoDims }

max_logo_size == 150

\* a bug: the logo is scaled by its width only
load_logo_ByWidth(file) ==
    IF file.kind # "image"
    THEN NoLogo
    ELSE LET new_w == IntScale(file.width, max_logo_size, file.width)
             new_h == IntScale(file.height, max_logo_size, file.width)
         IN  IF new_w < 1 \/ new_h < 1
             THEN NoLogo
             ELSE [kind |-> "sprite", width |-> new_w, height |-> new_h, mode |-> "RGBA"]

\* ratio = min(150 / width, 150 / height) is 150 / the longest side;
\* Image.resize raises ValueError for a size with a zero side, and every
\* exception of the load gives None
load_logo(file) ==
    IF file.kind # "image"
    THEN NoLogo
    ELSE LET longest == IF file.width >= file.height THEN file.width ELSE file.height
             new_w == IntScale(file.width, max_logo_size, longest)
             new_h == IntScale(file.height, max_logo_size, longest)
         IN  IF new_w < 1 \/ new_h < 1
             THEN NoLogo
             ELSE [kind |-> "sprite", width |-> new_w, height |-> new_h, mode |-> "RGBA"]

\* __init__: self.logo = self._load_logo() if brand_config.get("logo_path") else None
CreativeComposer(logo_file) ==
    [logo_file |-> logo_file,
     logo |-> IF logo_file.kind = "none" THEN NoLogo ELSE load_logo(logo_file)]

\* the text overlay paints on a copy of the image
add_text_overlay(image, text) ==
    [image EXCEPT !.layers = Append(@, [kind |-> "text", text |-> text])]

LogoPadding == 30

\* a bug: the logo is pasted without looking at self.logo
add_logo_overlay_NoGuard(logo, image, position) ==
    [image EXCEPT !.layers = Append(@, [kind |-> "logo", x |-> LogoPadding, y |-> LogoPadding])]

\* without a logo the image itself is returned; otherwise the logo is pasted
\* on a copy, in the corner the position names (any other name: bottom-left)
add_logo_overlay(logo, image, position) ==
    IF logo.kind = "None"
    THEN image
    ELSE LET right  == image.width - logo.width - LogoPadding
             bottom == image.height - logo.height - LogoPadding
             x == IF position \in {"top-right", "bottom-right"} THEN right ELSE LogoPadding
             y == IF position \in {"top-right", "top-left"} THEN LogoPadding ELSE bottom
         IN  [image EXCEPT !.layers = Append(@, [kind |-> "logo", x |-> x, y |-> y])]

LogoPositions == {"top-right", "top-left", "bottom-right", "bottom-left", "center"}

(***************************************************************************)
(* creative_composer.py: create_variations.  The call is a sequence of     *)
(* steps: open the hero image and make the product folder, then per ratio  *)
(* compose the image in memory, open the output file and write it.         *)
(***************************************************************************)
Products == {"p1", "p2"}

CampaignMessage == "Get fit this spring"

\* the decoded hero image of a product (RGB)
HeroImage(pid) ==
    IF pid = "p1"
    THEN [src |-> pid, width |-> 1920, height |-> 1080, layers |-> <<>>]
    ELSE [src |-> pid, width |-> 1024, height |-> 1024, layers |-> <<>>]

\* product_folder / f"{ratio}.png" with product_folder = output_folder / product_id
OutputPath(product_id, ratio) == [folder |-> product_id, name |-> ratio, ext |-> "png"]

Paths == { OutputPath(pid, r) : pid \in Products, r \in RatioNames }

Absent == [st |-> "absent"]

\* a file that was opened for writing and is not written to its end
Partial == [st |-> "partial"]

Complete(image) == [st |-> "complete", image |-> image]

\* the ratios argument: omitted (None) or a list
NoRatios == [given |-> FALSE]

RatioList(l) == [given |-> TRUE, list |-> l]

\* resize, then text, then the logo if there is one
ComposeVariation(logo, hero, ratio, text) ==
    LET r == resize_for_ratio(hero, ratio)
        resized == [src |-> hero.src, width |-> r.width, height |-> r.height,
                    layers |-> Append(hero.layers, [kind |-> "resize", ratio |-> ratio])]
        with_text == add_text_overlay(resized, text)
    IN  IF logo.kind # "None"
        THEN add_logo_overlay(logo, with_text, "top-right")
        ELSE with_text

\* a local that holds no image yet
NoImage == [kind |-> "None"]

\* a bug: the transforms work in place on the image they are given
BaseAfterCompose_InPlace(hero_image, final) == final

\* resize and crop return new images and the overlays paint on a copy: the
\* image create_variations loaded is as it was
BaseAfterCompose(hero_image, final) == hero_image

\* if ratios is None: ratios = AspectRatios.all_formats()
CvBegin(product_id, ratios_arg) ==
    [st |-> "open", product_id |-> product_id,
     ratios |-> IF ratios_arg.given THEN ratios_arg.list ELSE all_formats,
     i |-> 0, paths |-> <<>>, created |-> FALSE, err |-> "none",
     hero_image |-> NoImage, final |-> NoImage]

\* a bug: the error is logged and the loop goes on with the next ratio
OnFailure_Swallow(c, e) == [c EXCEPT !.st = "loop", !.i = @ + 1, !.err = e]

\* except Exception as e: logger.error(...); raise
OnFailure(c, e) == [c EXCEPT !.st = "raised", !.err = e]

\* a bug: the new path is put in front of the list
AppendPath_Front(paths, path) == <<path>> \o paths

\* generated_paths.append(output_path)
AppendPath(paths, path) == Append(paths, path)

CvPath == OutputPath(cv.product_id, cv.ratios[cv.i])

\* Image.open(hero_image_path) and product_folder.mkdir succeed
CvLoad ==
    /\ run.pc = "in_call"
    /\ cv.st = "open"
    /\ cv' = [cv EXCEPT !.st = "loop", !.i = 1, !.hero_image = HeroImage(cv.product_id)]
    /\ UNCHANGED <<args, composer, fs, run, ovl>>
    /\ UNCHANGED <<pureVars, assetVars>>

\* the hero image cannot be decoded, or the folder cannot be made
CvLoadFail ==
    /\ run.pc = "in_call"
    /\ cv.st = "open"
    /\ \E e \in {"DecodeError", "WriteError"} : cv' = OnFailure(cv, e)
    /\ UNCHANGED <<args, composer, fs, run, ovl>>
    /\ UNCHANGED <<pureVars, assetVars>>

\* the in-memory steps of one ratio
CvCompose ==
    /\ run.pc = "in_call"
    /\ cv.st = "loop"
    /\ cv.i <= Len(cv.ratios)
    /\ LET final == ComposeVariation(composer.logo, cv.hero_image,
                                      cv.ratios[cv.i], CampaignMessage)
       IN  cv' = [cv EXCEPT !.st = "save", !.final = final,
                            !.hero_image = BaseAfterCompose(@, final)]
    /\ UNCHANGED <<args, composer, fs, run, ovl>>
    /\ UNCHANGED <<pureVars, assetVars>>

\* final.save opens the output file: it is created, or cut to length 0
CvSaveOpen ==
    /\ run.pc = "in_call"
    /\ cv.st = "save"
    /\ fs' = [fs EXCEPT ![CvPath] = Partial]
    /\ cv' = [cv EXCEPT !.st = "writing", !.created = (fs[CvPath].st = "absent")]
    /\ UNCHANGED <<args, composer, run, ovl>>
    /\ UNCHANGED <<pureVars, assetVars>>

\* the output file cannot be opened: nothing is written
CvSaveOpenFail ==
    /\ run.pc = "in_call"
    /\ cv.st = "save"
    /\ cv' = OnFailure(cv, "WriteError")
    /\ UNCHANGED <<args, composer, fs, run, ovl>>
    /\ UNCHANGED <<pureVars, assetVars>>

\* the file is written to its end and closed; the path is recorded
CvSaveWrite ==
    /\ run.pc = "in_call"
    /\ cv.st = "writing"
    /\ fs' = [fs EXCEPT ![CvPath] = Complete(cv.final)]
    /\ cv' = [cv EXCEPT !.st = "loop", !.i = @ + 1,
                        !.paths = AppendPath(@, CvPath)]
    /\ UNCHANGED <<args, composer, run, ovl>>
    /\ UNCHANGED <<pureVars, assetVars>>

\* the write fails part way: the imaging library removes a file it has just
\* created or leaves it as it is (which one depends on its version), and
\* leaves a file that was there before cut short
CvSaveWriteFail ==
    /\ run.pc = "in_call"
    /\ cv.st = "writing"
    /\ \E left \in {Partial} \cup (IF cv.created THEN {Absent} ELSE {}) :
            fs' = [fs EXCEPT ![CvPath] = left]
    /\ cv' = OnFailure(cv, "WriteError")
    /\ UNCHANGED <<args, composer, run, ovl>>
    /\ UNCHANGED <<pureVars, assetVars>>

\* return generated_paths
CvReturn ==
    /\ run.pc = "in_call"
    /\ cv.st = "loop"
    /\ cv.i > Len(cv.ratios)
    /\ cv' = [cv EXCEPT !.st = "returned"]
    /\ UNCHANGED <<args, composer, fs, run, ovl>>
    /\ UNCHANGED <<pureVars, assetVars>>

CvStep ==
    \/ CvLoad
    \/ CvLoadFail
    \/ CvCompose
    \/ CvSaveOpen
    \/ CvSaveOpenFail
    \/ CvSaveWrite
    \/ CvSaveWriteFail
    \/ CvReturn

(***************************************************************************)
(* Direct callers of the composer.                                         *)
(***************************************************************************)
\* the ratio names callers put in their lists
RatioChoices == {"1x1", "16x9", "4x5", UnknownRatio}

\* every list of at most MaxRatios names
RatioLists == UNION { [1..n -> RatioChoices] : n \in 0..MaxRatios }

RatioArgs == {NoRatios} \cup { RatioList(l) : l \in RatioLists }

\* a caller calls create_variations for one product
DirectCall ==
    /\ args.mode = "direct"
    /\ run.pc = "start"
    /\ cv' = CvBegin(args.product_id, args.ratios)
    /\ run' = [run EXCEPT !.pc = "in_call"]
    /\ UNCHANGED <<args, composer, fs, ovl>>
    /\ UNCHANGED <<pureVars, assetVars>>

\* the images handed to add_logo_overlay
OverlayImages ==
    { [src |-> "p1", width |-> 1080, height |-> 1080, layers |-> l] :
        l \in { <<>>, <<[kind |-> "text", text |-> CampaignMessage]>> } }

\* a caller calls add_logo_overlay
OverlayCall ==
    /\ args.mode = "overlay"
    /\ run.pc = "start"
    /\ \E image \in OverlayImages, position \in LogoPositions :
        ovl' = [st |-> "done", image |-> image, position |-> position,
                out |-> add_logo_overlay(composer.logo, image, position)]
    /\ run' = [run EXCEPT !.pc = "done"]
    /\ UNCHANGED <<args, composer, cv, fs>>
    /\ UNCHANGED <<pureVars, assetVars>>

\* a composer built from any brand_config, an empty output folder, and one
\* call about to be made
InitVariations ==
    /\ rz = RzIdle
    /\ legal = LegalIdle
    /\ comp = CompIdle
    /\ lk = LkIdle
    /\ ct = CtIdle
    /\ txt = TxtIdle
    /\ folder = NoFolder
    /\ am = AmIdle
    /\ gen = GenIdle
    /\ \E f \in LogoFiles : composer = CreativeComposer(f)
    /\ \/ \E pid \in Products, ra \in RatioArgs :
            args = [mode |-> "direct", product_id |-> pid, ratios |-> ra]
       \/ args = [mode |-> "overlay"]
    /\ cv = [st |-> "idle"]
    /\ fs = [p \in Paths |-> Absent]
    /\ run = [pc |-> "start"]
    /\ ovl = [st |-> "idle"]

NextVariations == DirectCall \/ OverlayCall \/ CvStep

SpecVariations == InitVariations /\ [][NextVariations]_vars

\* the ratio names of the first k entries of the call's list
RatiosReached(k) == { cv.ratios[m] : m \in 1..k }

\* C2: when create_variations succeeds for a ratio list r1..rn it returns
\* exactly n paths, the i-th being <output>/<product id>/<ri>.png, in the
\* order of the list, and each returned path has been written.
C2_PathsInOrder ==
    cv.st = "returned" =>
        /\ args.mode = "direct" /\ args.ratios.given => cv.ratios = args.ratios.list
        /\ Len(cv.paths) = Len(cv.ratios)
        /\ \A i \in 1..Len(cv.ratios) :
              /\ cv.paths[i] = [folder |-> cv.product_id, name |-> cv.ratios[i], ext |-> "png"]
              /\ fs[cv.paths[i]].st = "complete"

\* the call with ["1x1", "16x9"] returned .../1x1.png then .../16x9.png
C2_Witness ==
    /\ cv.st = "returned"
    /\ args.mode = "direct"
    /\ args.ratios = RatioList(<<"1x1", "16x9">>)
    /\ cv.paths = << [folder |-> cv.product_id, name |-> "1x1", ext |-> "png"],
                     [folder |-> cv.product_id, name |-> "16x9", ext |-> "png"] >>

\* C4: if create_variations fails while processing the k-th ratio, the error
\* is raised to the caller, no ratio after the k-th is processed, and no
\* file, complete or partial, exists for a ratio that was not yet reached.
C4_FailureStopsTheCall ==
    (cv.st # "idle" /\ cv.err # "none") =>
        /\ cv.st = "raised"
        /\ Len(cv.paths) = (IF cv.i = 0 THEN 0 ELSE cv.i - 1)
        /\ \A j \in (cv.i + 1)..Len(cv.ratios) :
              cv.ratios[j] \notin RatiosReached(cv.i)
                  => fs[OutputPath(cv.product_id, cv.ratios[j])].st = "absent"

\* the write of the first of two ratios failed and left a partial file; the
\* second ratio has no file
C4_Witness ==
    /\ cv.st = "raised"
    /\ cv.i = 1
    /\ Len(cv.ratios) = 2
    /\ cv.ratios[1] # cv.ratios[2]
    /\ fs[OutputPath(cv.product_id, cv.ratios[1])].st = "partial"
    /\ fs[OutputPath(cv.product_id, cv.ratios[2])].st = "absent"

\* a layer of the image is the logo
HasLogoLayer(image) == \E k \in 1..Len(image.layers) : image.layers[k].kind = "logo"

\* C8: if no logo was loaded at construction (no logo_path, a path that does
\* not exist, or a load that raised), add_logo_overlay returns its input
\* unchanged for every position, and create_variations skips the logo step;
\* the state is observable as composer.logo being None.
C8_NoLogoNoOverlay ==
    /\ composer.logo_file.kind \in {"none", "missing", "unreadable"}
          => composer.logo = NoLogo
    /\ composer.logo_file = LogoFile(1000, 1) => composer.logo = NoLogo
    /\ (composer.logo = NoLogo /\ ovl.st = "done") => ovl.out = ovl.image
    /\ composer.logo = NoLogo =>
          \A p \in DOMAIN fs : fs[p].st = "complete" => ~HasLogoLayer(fs[p].image)

\* the logo file could not be read, and the overlay in a corner returned its
\* input
C8_Witness ==
    /\ composer.logo_file = UnreadableFile
    /\ composer.logo = NoLogo
    /\ ovl.st = "done"
    /\ ovl.position = "bottom-right"
    /\ ovl.out = ovl.image

(***************************************************************************)
(* pipeline.py: main from step 5 on, and batch_create_variations.  Both    *)
(* loop over a dict of hero images, whose keys are distinct product ids in *)
(* insertion order.                                                        *)
(***************************************************************************)
\* the aspect_ratios entry of the campaign brief: no such key, null, or a list
BriefAbsent == [key |-> "absent"]

BriefNull == [key |-> "null"]

BriefList(l) == [key |-> "list", list |-> l]

\* campaign_brief.get("aspect_ratios", ["1x1", "9x16", "16x9"]), passed on as
\* ratios=aspect_ratios
MainAspectRatios(aspect_ratios) ==
    IF aspect_ratios.key = "absent" THEN RatioList(<<"1x1", "9x16", "16x9">>)
    ELSE IF aspect_ratios.key = "null" THEN NoRatios
    ELSE RatioList(aspect_ratios.list)

\* the ratio names the briefs and batch callers of the model put in lists
RunRatioChoices == {"1x1", "4x5"}

RunRatioLists == UNION { [1..n -> RunRatioChoices] : n \in 0..MaxRatios }

\* the dicts of hero images: their keys in insertion order
AssetOrders == { <<>>, <<"p1">>, <<"p2">>, <<"p1", "p2">>, <<"p2", "p1">> }

RunStart ==
    [pc |-> "start", idx |-> 1, total_variations |-> 0, reports |-> 0,
     results |-> <<>>, failed_log |-> {}]

\* the ratios argument of the calls the loop makes
LoopRatios ==
    IF args.mode = "main" THEN MainAspectRatios(args.aspect_ratios) ELSE args.ratios

\* create_output_structure reads product["id"] of every product of the brief:
\* a product without an id raises KeyError, which ends the run
MainCreateOutputStructure ==
    /\ args.mode = "main"
    /\ run.pc = "start"
    /\ run' = [run EXCEPT !.pc = IF args.ids_ok THEN "loop" ELSE "aborted"]
    /\ UNCHANGED <<args, composer, cv, fs, ovl>>
    /\ UNCHANGED <<pureVars, assetVars>>

\* results = {}
BatchBegin ==
    /\ args.mode = "batch"
    /\ run.pc = "start"
    /\ run' = [run EXCEPT !.pc = "loop"]
    /\ UNCHANGED <<args, composer, cv, fs, ovl>>
    /\ UNCHANGED <<pureVars, assetVars>>

\* the loop calls create_variations for the next product
LoopCall ==
    /\ args.mode \in {"main", "batch"}
    /\ run.pc = "loop"
    /\ run.idx <= Len(args.assets)
    /\ cv' = CvBegin(args.assets[run.idx], LoopRatios)
    /\ run' = [run EXCEPT !.pc = "in_call"]
    /\ UNCHANGED <<args, composer, fs, ovl>>
    /\ UNCHANGED <<pureVars, assetVars>>

\* a bug: the failure of one product ends the run
MainAfterFailure_Abort(r, product_id) ==
    [r EXCEPT !.pc = "aborted", !.failed_log = @ \cup {product_id}]

\* except Exception as e: logger.error(...); continue
MainAfterFailure(r, product_id) ==
    [r EXCEPT !.pc = "loop", !.idx = @ + 1, !.failed_log = @ \cup {product_id}]

\* total_variations += len(variations), and one compliance report per
\* variation unless --skip-compliance (the artifact was just written, so
\* run_full_compliance_check finds it and returns a report)
MainVariationsOk ==
    /\ args.mode = "main"
    /\ run.pc = "in_call"
    /\ cv.st = "returned"
    /\ run' = [run EXCEPT !.pc = "loop", !.idx = @ + 1,
                          !.total_variations = @ + Len(cv.paths),
                          !.reports = @ + (IF args.skip_compliance THEN 0 ELSE Len(cv.paths))]
    /\ UNCHANGED <<args, composer, cv, fs, ovl>>
    /\ UNCHANGED <<pureVars, assetVars>>

MainVariationsFail ==
    /\ args.mode = "main"
    /\ run.pc = "in_call"
    /\ cv.st = "raised"
    /\ run' = MainAfterFailure(run, cv.product_id)
    /\ UNCHANGED <<args, composer, cv, fs, ovl>>
    /\ UNCHANGED <<pureVars, assetVars>>

\* results[product_id] = paths
BatchOk ==
    /\ args.mode = "batch"
    /\ run.pc = "in_call"
    /\ cv.st = "returned"
    /\ run' = [run EXCEPT !.pc = "loop", !.idx = @ + 1,
                          !.results = Append(@, [product_id |-> cv.product_id,
                                                 paths |-> cv.paths])]
    /\ UNCHANGED <<args, composer, cv, fs, ovl>>
    /\ UNCHANGED <<pureVars, assetVars>>

\* except Exception as e: logger.error(...); results[product_id] = []
BatchFail ==
    /\ args.mode = "batch"
    /\ run.pc = "in_call"
    /\ cv.st = "raised"
    /\ run' = [run EXCEPT !.pc = "loop", !.idx = @ + 1,
                          !.failed_log = @ \cup {cv.product_id},
                          !.results = Append(@, [product_id |-> cv.product_id,
                                                 paths |-> <<>>])]
    /\ UNCHANGED <<args, composer, cv, fs, ovl>>
    /\ UNCHANGED <<pureVars, assetVars>>

\* the loop is over: main goes on to step 6, the batch returns results
LoopEnd ==
    /\ args.mode \in {"main", "batch"}
    /\ run.pc = "loop"
    /\ run.idx > Len(args.assets)
    /\ run' = [run EXCEPT !.pc = IF args.mode = "main" THEN "report" ELSE "returned"]
    /\ UNCHANGED <<args, composer, cv, fs, ovl>>
    /\ UNCHANGED <<pureVars, assetVars>>

\* step 6: the summary and the execution report
MainReport ==
    /\ args.mode = "main"
    /\ run.pc = "report"
    /\ run' = [run EXCEPT !.pc = "done"]
    /\ UNCHANGED <<args, composer, cv, fs, ovl>>
    /\ UNCHANGED <<pureVars, assetVars>>

\* KeyboardInterrupt is raised in the main thread wherever it is; no handler
\* on the way catches it (create_variations catches Exception only) before
\* main's `except KeyboardInterrupt`, which logs and exits
Interrupt ==
    /\ args.mode = "main"
    /\ run.pc \in {"start", "loop", "in_call", "report"}
    /\ run' = [run EXCEPT !.pc = "interrupted"]
    /\ UNCHANGED <<args, composer, cv, fs, ovl>>
    /\ UNCHANGED <<pureVars, assetVars>>

\* the brand configurations of the runs: no logo, or a logo
RunLogoFiles == {[kind |-> "none"], LogoFile(300, 150)}

InitPipeline ==
    /\ rz = RzIdle
    /\ legal = LegalIdle
    /\ comp = CompIdle
    /\ lk = LkIdle
    /\ ct = CtIdle
    /\ txt = TxtIdle
    /\ folder = NoFolder
    /\ am = AmIdle
    /\ gen = GenIdle
    /\ \E f \in RunLogoFiles : composer = CreativeComposer(f)
    /\ \/ \E order \in AssetOrders, skip \in BOOLEAN, ok \in BOOLEAN,
            ar \in {BriefAbsent, BriefNull} \cup { BriefList(l) : l \in RunRatioLists } :
            args = [mode |-> "main", assets |-> order, aspect_ratios |-> ar,
                    skip_compliance |-> skip, ids_ok |-> ok]
       \/ \E order \in AssetOrders,
            ra \in {NoRatios} \cup { RatioList(l) : l \in RunRatioLists } :
            args = [mode |-> "batch", assets |-> order, ratios |-> ra]
    /\ cv = [st |-> "idle"]
    /\ fs = [p \in Paths |-> Absent]
    /\ run = RunStart
    /\ ovl = [st |-> "idle"]

NextPipeline ==
    \/ MainCreateOutputStructure
    \/ BatchBegin
    \/ LoopCall
    \/ CvStep
    \/ MainVariationsOk
    \/ MainVariationsFail
    \/ BatchOk
    \/ BatchFail
    \/ LoopEnd
    \/ MainReport

SpecPipeline == InitPipeline /\ [][NextPipeline]_vars

\* the interpreter runs the main thread on: every step that can be taken is
\* taken
FairSpecPipeline == SpecPipeline /\ WF_vars(NextPipeline)

NextInterrupt == NextPipeline \/ Interrupt

SpecInterrupt == InitPipeline /\ [][NextInterrupt]_vars

\* the products the loop is through with
Processed == { args.assets[k] : k \in 1..(run.idx - 1) }

\* the ratio list create_variations works on in the calls of the loop
LoopRatioList == IF LoopRatios.given THEN LoopRatios.list ELSE all_formats

\* what the results say at every point of a run
ResultsCountSucceededOnly ==
    /\ args.mode = "main" /\ run.pc \in {"loop", "in_call", "report", "done"} =>
          /\ run.total_variations
                = Len(LoopRatioList) * Cardinality(Processed \ run.failed_log)
          /\ run.reports = (IF args.skip_compliance THEN 0 ELSE run.total_variations)
    /\ args.mode = "batch" =>
          /\ Len(run.results) = run.idx - 1
          /\ \A k \in 1..Len(run.results) :
                /\ run.results[k].product_id = args.assets[k]
                /\ Len(run.results[k].paths)
                      = (IF args.assets[k] \in run.failed_log THEN 0 ELSE Len(LoopRatioList))
    /\ run.pc \in {"report", "done", "returned"} =>
          /\ Processed = { args.assets[k] : k \in 1..Len(args.assets) }
          /\ \A pid \in Processed \ run.failed_log :
                \A m \in 1..Len(LoopRatioList) :
                    fs[OutputPath(pid, LoopRatioList[m])].st = "complete"
    /\ run.pc = "aborted" => (args.mode = "main" /\ ~args.ids_ok /\ run.idx = 1)

\* C5: in the variation stage of the pipeline and in batch_create_variations,
\* a product whose create_variations raises contributes zero variations to
\* the results, every other product with a hero image is still processed,
\* and the run goes from the loop to the reporting step (the batch: to its
\* return) however many products fail.
C5_FailedProductIsSkipped ==
    /\ []ResultsCountSucceededOnly
    /\ (run.pc = "loop") ~> (run.pc \in {"report", "returned"})

\* the first of two products failed, the second gave its two variations, and
\* the run is at the reporting step
C5_Witness ==
    /\ args.mode = "main"
    /\ run.pc = "report"
    /\ args.assets = <<"p1", "p2">>
    /\ run.failed_log = {"p1"}
    /\ Len(LoopRatioList) = 2
    /\ run.total_variations = 2

\* C9: when the pipeline is interrupted (KeyboardInterrupt) during
\* create_variations, the call stops only at a boundary between ratios: no
\* interruption takes effect in the middle of writing an artifact, so the
\* artifact the call was working on is absent or completely written.
C9_InterruptBetweenRatios ==
    (run.pc = "interrupted" /\ cv.st \notin {"idle", "returned", "raised"}) =>
        /\ cv.st # "writing"
        /\ \A m \in 1..Len(cv.ratios) :
              fs[OutputPath(cv.product_id, cv.ratios[m])].st \in {"absent", "complete"}

\* C10: when no ratio list is supplied (ratios omitted in create_variations,
\* or aspect_ratios absent from the campaign brief the pipeline reads), the
\* variations are made for exactly the names of AspectRatios.all_formats().
C10_DefaultIsAllFormats ==
    LET omitted == \/ args.mode = "main" /\ args.aspect_ratios.key = "absent"
                   \/ args.mode = "batch" /\ ~args.ratios.given
    IN  (omitted /\ cv.st # "idle") =>
            /\ cv.ratios = all_formats
            /\ cv.st = "returned" =>
                  /\ Len(cv.paths) = Len(all_formats)
                  /\ \A m \in 1..Len(all_formats) :
                        cv.paths[m] = OutputPath(cv.product_id, all_formats[m])

(***************************************************************************)
(* constants.py: the three lookups of AspectRatios.                        *)
(***************************************************************************)
GENERATION_DIMENSIONS ==
    [n \in {"1x1", "9x16", "16x9", "4x3", "3x4"} |->
        CASE n = "1x1"  -> <<1024, 1024>>
          [] n = "9x16" -> <<1080, 1920>>
          [] n = "16x9" -> <<1920, 1080>>
          [] n = "4x3"  -> <<1024, 768>>
          [] n = "3x4"  -> <<768, 1024>>]

FLUX_FORMATS ==
    [n \in {"1x1", "9x16", "16x9", "4x3", "3x4"} |->
        CASE n = "1x1"  -> "square"
          [] n = "9x16" -> "portrait_16_9"
          [] n = "16x9" -> "landscape_16_9"
          [] n = "4x3"  -> "landscape_4_3"
          [] n = "3x4"  -> "portrait_3_4"]

\* cls.GENERATION_DIMENSIONS.get(format_name, (1920, 1080))
get_generation_size(format_name) ==
    IF format_name \in DOMAIN GENERATION_DIMENSIONS
    THEN GENERATION_DIMENSIONS[format_name]
    ELSE <<1920, 1080>>

\* cls.FLUX_FORMATS.get(format_name, "landscape_16_9")
get_flux_format(format_name) ==
    IF format_name \in DOMAIN FLUX_FORMATS
    THEN FLUX_FORMATS[format_name]
    ELSE "landscape_16_9"

\* the names "<a>x<b>" looked up have parts of at most MaxNamePart
MaxNamePart == 6

\* the names of the tables, names of no table, and strings that are no
\* ratio name at all
LookupNames ==
    { ToString(a) \o "x" \o ToString(b) : a \in 1..MaxNamePart, b \in 1..MaxNamePart }
        \cup {"9x16", "16x9", UnknownRatio, "", "square"}

LookupFunctions == {"get_output_size", "get_generation_size", "get_flux_format"}

\* a caller looks a name up with one of the three functions
LookupCall ==
    /\ lk.st = "idle"
    /\ \E f \in LookupFunctions, n \in LookupNames :
        lk' = [st |-> "done", fn |-> f, name |-> n,
               out |-> CASE f = "get_output_size"     -> get_output_size(n)
                         [] f = "get_generation_size" -> get_generation_size(n)
                         [] f = "get_flux_format"     -> get_flux_format(n)]
    /\ UNCHANGED <<rz, legal, comp, ct, txt>>
    /\ UNCHANGED <<runVars, assetVars>>

InitLookup ==
    /\ rz = RzIdle
    /\ legal = LegalIdle
    /\ comp = CompIdle
    /\ lk = LkIdle
    /\ ct = CtIdle
    /\ txt = TxtIdle
    /\ folder = NoFolder
    /\ am = AmIdle
    /\ gen = GenIdle
    /\ RunIdle

NextLookup == LookupCall

SpecLookup == InitLookup /\ [][NextLookup]_vars

\* C11: the three lookups never fail: for a name absent from the respective
\* table get_output_size returns (1080, 1080), get_generation_size returns
\* (1920, 1080) and the provider-format lookup returns "landscape"; for a
\* known name each returns the name's table entry, with positive width and
\* height.
C11_LookupDefaults ==
    lk.st = "done" =>
        CASE lk.fn = "get_output_size" ->
                IF lk.name \in DOMAIN OUTPUT_DIMENSIONS
                THEN lk.out = OUTPUT_DIMENSIONS[lk.name] /\ lk.out[1] > 0 /\ lk.out[2] > 0
                ELSE lk.out = <<1080, 1080>>
          [] lk.fn = "get_generation_size" ->
                IF lk.name \in DOMAIN GENERATION_DIMENSIONS
                THEN lk.out = GENERATION_DIMENSIONS[lk.name] /\ lk.out[1] > 0 /\ lk.out[2] > 0
                ELSE lk.out = <<1920, 1080>>
          [] lk.fn = "get_flux_format" ->
                IF lk.name \in DOMAIN FLUX_FORMATS
                THEN lk.out = FLUX_FORMATS[lk.name]
                ELSE lk.out = "landscape"

(***************************************************************************)
(* The claims on the image checks, on the calls of SpecCompliance.         *)
(***************************************************************************)
\* C12: check_logo_presence returns the verdict null (detected None,
\* confidence 0.0, with a reason message) whenever no logo template is
\* configured, the template file does not exist, or the template's width is
\* at least 30% of the image's width; in those cases no colour is compared.
C12_LogoNullVerdict ==
    (comp.st = "done" /\ comp.out.st = "returned") =>
        LET logo == comp.cfg.logo
            res  == comp.out.checks.logo_presence
            too_large == /\ logo.kind = "image"
                         /\ comp.image.kind = "image"
                         /\ 10 * logo.width >= 3 * comp.image.width
        IN  (logo.kind \in {"none", "missing"} \/ too_large) =>
                /\ res.detected = "None"
                /\ res.matched = 0
                /\ res.message # ""
                /\ res.compared = 0

\* a template of 324 px for an image of 1080 px: not checkable
C12_Witness ==
    /\ comp.st = "done"
    /\ comp.out.st = "returned"
    /\ comp.image.kind = "image"
    /\ comp.image.width = 1080
    /\ comp.cfg.logo.kind = "image"
    /\ comp.cfg.logo.width = 324
    /\ comp.out.checks.logo_presence.detected = "None"
    /\ comp.out.checks.logo_presence.message = "Logo template too large for detection"
\* C13: each of the (up to 10) sampled logo colours counts as matched iff
\* some pixel of the image lies within Euclidean RGB distance 50 of it, the
\* distance being the true one over channel values 0..255; confidence is
\* matched / sampled count and the verdict is true iff confidence > 0.5.
C13_LogoTrueDistance ==
    (comp.st = "done" /\ comp.out.st = "returned"
        /\ comp.out.checks.logo_presence.detected # "None") =>
        LET res     == comp.out.checks.logo_presence
            sample  == FirstColours(comp.cfg.logo.pixels, 10)
            near(c) == \E p \in comp.image.pixels : SquareSum(p, c) < 50 * 50
        IN  /\ res.sampled = Cardinality(sample)
            /\ res.matched = Cardinality({ c \in sample : near(c) })
            /\ (res.detected = "True") <=> (2 * res.matched > res.sampled)
\* the RGB value a well-formed hex colour of the model denotes
HexMeaning(hex) ==
    CASE hex = HexOrange -> <<255, 87, 51>>
      [] hex = HexBlue   -> <<52, 152, 219>>
      [] hex = HexGreen  -> <<0, 255, 0>>

C18_ComplianceNeverRaises ==
    comp.st = "done" =>
        /\ comp.out.st = "returned"
        /\ (comp.image.kind # "image" \/ comp.cfg.logo.kind = "unreadable") =>
              /\ comp.out.checks.logo_presence.detected = "None"
              /\ comp.out.checks.logo_presence.message # ""
        /\ comp.image.kind # "image" =>
              /\ comp.out.checks.brand_colors.compliant = "None"
              /\ comp.out.checks.brand_colors.message # ""

(***************************************************************************)
(* compliance_checker.py: check_text_contrast.  Luminances are kept in     *)
(* millionths.  The tables hold, for the channel values of the model, the  *)
(* weighted linear value the code computes in floating point; on the       *)
(* colours of ContrastColours the integer arithmetic below gives the       *)
(* rounded ratio and the two flags the floating-point code gives.          *)
(***************************************************************************)
ChannelLevels == <<0, 7, 36, 119, 174, 255>>

\* 10^6 * weight * (c / 12.92 if c <= 0.03928 else ((c + 0.055) / 1.055) ** 2.4)
\* with c = level / 255, for the weights 0.2126, 0.7152 and 0.0722
WeightedLinear ==
    << <<0, 452, 3751, 39219, 89987, 212600>>,
       <<0, 1520, 12618, 131937, 302721, 715200>>,
       <<0, 153, 1274, 13319, 30560, 72200>> >>

LevelIndex(v) == CHOOSE i \in 1..Len(ChannelLevels) : ChannelLevels[i] = v

\* 0.2126 * rgb[0] + 0.7152 * rgb[1] + 0.0722 * rgb[2]
luminance(color) ==
    WeightedLinear[1][LevelIndex(color[1])]
        + WeightedLinear[2][LevelIndex(color[2])]
        + WeightedLinear[3][LevelIndex(color[3])]

\* a bug: the ratio is always text over background
check_text_contrast_NoSwap(text_color, bg_color) ==
    LET num == luminance(text_color) + 50000
        den == luminance(bg_color) + 50000
    IN  [ratio |-> (200 * num + den) \div (2 * den),
         unrounded |-> <<num, den>>,
         passes_aa |-> (2 * num >= 9 * den),
         passes_aaa |-> (num >= 7 * den),
         recommendation |-> IF 2 * num >= 9 * den THEN "Compliant" ELSE "Increase contrast"]

\* ratio = (lighter + 0.05) / (darker + 0.05), kept as <<numerator,
\* denominator>> in `unrounded`; "ratio" is round(ratio, 2) in hundredths;
\* the flags compare the unrounded ratio with 4.5 and 7.0
check_text_contrast(text_color, bg_color) ==
    LET l1 == luminance(text_color)
        l2 == luminance(bg_color)
        num == (IF l1 > l2 THEN l1 ELSE l2) + 50000
        den == (IF l1 > l2 THEN l2 ELSE l1) + 50000
    IN  [ratio |-> (200 * num + den) \div (2 * den),
         unrounded |-> <<num, den>>,
         passes_aa |-> (2 * num >= 9 * den),
         passes_aaa |-> (num >= 7 * den),
         recommendation |-> IF 2 * num >= 9 * den THEN "Compliant" ELSE "Increase contrast"]

\* greys, primaries and mixed colours over the channel levels
ContrastColours ==
    { <<0, 0, 0>>, <<7, 7, 7>>, <<36, 36, 36>>, <<119, 119, 119>>, <<174, 174, 174>>,
      <<255, 255, 255>>, <<255, 0, 0>>, <<0, 255, 0>>, <<0, 0, 255>>, <<174, 36, 255>>,
      <<255, 255, 0>>, <<0, 174, 36>>, <<7, 0, 7>>, <<36, 119, 174>>, <<255, 119, 36>>,
      <<0, 255, 255>> }

\* a caller checks a text colour against a background colour
ContrastCall ==
    /\ ct.st = "idle"
    /\ \E a \in ContrastColours, b \in ContrastColours :
        ct' = [st |-> "done", text_color |-> a, bg_color |-> b,
               out |-> check_text_contrast(a, b)]
    /\ UNCHANGED <<rz, legal, comp, lk, txt>>
    /\ UNCHANGED <<runVars, assetVars>>

InitContrast ==
    /\ rz = RzIdle
    /\ legal = LegalIdle
    /\ comp = CompIdle
    /\ lk = LkIdle
    /\ ct = CtIdle
    /\ txt = TxtIdle
    /\ folder = NoFolder
    /\ am = AmIdle
    /\ gen = GenIdle
    /\ RunIdle

NextContrast == ContrastCall

SpecContrast == InitContrast /\ [][NextContrast]_vars

\* what holds of every call whichever ratio the last conjunct is about:
\* the result does not depend on the order of the two colours, the ratio is
\* at least 1, and white against black gives 21.0
ContrastSymmetricAtLeastOne ==
    /\ ct.out = check_text_contrast(ct.bg_color, ct.text_color)
    /\ ct.out.ratio >= 100
    /\ ct.out.unrounded[1] >= ct.out.unrounded[2]
    /\ ({ct.text_color, ct.bg_color} = {White, Black} => ct.out.ratio = 2100)

\* C15 (as the code has it): check_text_contrast is symmetric in its two
\* colours, its ratio is at least 1, white against black gives 21.0, and
\* passes_aa holds iff the unrounded ratio is >= 4.5 (passes_aaa iff >= 7.0);
\* the returned ratio is that ratio rounded to two decimals.
C15_ContrastUnrounded ==
    ct.st = "done" =>
        /\ ContrastSymmetricAtLeastOne
        /\ ct.out.passes_aa <=> (10 * ct.out.unrounded[1] >= 45 * ct.out.unrounded[2])
        /\ ct.out.passes_aaa <=> (ct.out.unrounded[1] >= 7 * ct.out.unrounded[2])
        /\ 200 * ct.out.unrounded[1] - ct.out.unrounded[2]
              <= 2 * ct.out.ratio * ct.out.unrounded[2]
        /\ 2 * ct.out.ratio * ct.out.unrounded[2]
              <= 200 * ct.out.unrounded[1] + ct.out.unrounded[2]

\* C15 (as stated): check_text_contrast is symmetric in its two colours, its
\* ratio is at least 1, white against black gives 21.0, and passes_aa holds
\* iff the returned ratio is >= 4.5 (passes_aaa iff >= 7.0).
C15_ContrastReturnedRatio ==
    ct.st = "done" =>
        /\ ContrastSymmetricAtLeastOne
        /\ ct.out.passes_aa <=> (ct.out.ratio >= 450)
        /\ ct.out.passes_aaa <=> (ct.out.ratio >= 700)

\* dark grey on mid grey: the returned ratio is 4.5 and AA is not passed
C15_Witness ==
    /\ ct.st = "done"
    /\ ct.text_color = <<7, 7, 7>>
    /\ ct.bg_color = <<119, 119, 119>>
    /\ ct.out.ratio = 450
    /\ ~ct.out.passes_aa

(***************************************************************************)
(* creative_composer.py: the layout add_text_overlay computes before it    *)
(* paints.  A text is given by its words (text.split()); a font is the     *)
(* bold TrueType font at font_size or ImageFont.load_default(); the width  *)
(* draw.textbbox reports for a line is taken as a fixed advance for each   *)
(* of its characters.                                                      *)
(***************************************************************************)
\* a text has at most MaxWords words
MaxWords == 3

Words == {"Go", "sale", "spring", "unbelievable", "Supercalifragilisticexpialidocious"}

Texts == UNION { [1..n -> Words] : n \in 0..MaxWords }

TextImageSizes ==
    { <<12, 12>>, <<400, 400>>, <<1080, 1080>>, <<1080, 1920>>, <<1920, 1080>> }

TextPositions == {"top", "bottom", "center"}

RECURSIVE JoinWords(_)
\* ' '.join(words)
JoinWords(ws) ==
    IF ws = <<>> THEN ""
    ELSE IF Len(ws) = 1 THEN ws[1]
    ELSE ws[1] \o " " \o JoinWords(Tail(ws))

\* int(min_dimension * 0.08)
FontSize(image) ==
    ((IF image.width < image.height THEN image.width ELSE image.height) * 8) \div 100

\* int(image.width * 0.85)
MaxTextWidth(image) == (image.width * 85) \div 100

\* ImageFont.truetype raises for a size below 1 and the except clause loads
\* the default font, as does a system that has none of the font files
LoadFont(font_size, has_font_file) ==
    IF has_font_file /\ font_size >= 1
    THEN [kind |-> "truetype", size |-> font_size]
    ELSE [kind |-> "default"]

\* bbox[2] - bbox[0] of draw.textbbox((0, 0), line, font=font)
TextWidth(font, line) ==
    (IF font.kind = "truetype" THEN (7 * font.size + 9) \div 10 ELSE 6) * Len(line)

\* a bug: the words are never broken into lines
WrapNoBreak(words, lines, current_line, font, max_text_width) ==
    IF words = <<>> THEN <<>> ELSE <<words>>

RECURSIVE WrapDropLong(_, _, _, _, _)
\* a bug: a word too wide for an empty line is dropped
WrapDropLong(words, lines, current_line, font, max_text_width) ==
    IF words = <<>>
    THEN IF current_line # <<>> THEN Append(lines, current_line) ELSE lines
    ELSE LET word == Head(words)
             test_line == Append(current_line, word)
         IN  IF TextWidth(font, JoinWords(test_line)) <= max_text_width
             THEN WrapDropLong(Tail(words), lines, test_line, font, max_text_width)
             ELSE IF current_line # <<>>
             THEN WrapDropLong(Tail(words), Append(lines, current_line), <<word>>,
                               font, max_text_width)
             ELSE WrapDropLong(Tail(words), lines, <<>>, font, max_text_width)

RECURSIVE Wrap(_, _, _, _, _)
\* the loop over the words, and the closing of the last line
Wrap(words, lines, current_line, font, max_text_width) ==
    IF words = <<>>
    THEN IF current_line # <<>> THEN Append(lines, current_line) ELSE lines
    ELSE LET word == Head(words)
             test_line == Append(current_line, word)
         IN  IF TextWidth(font, JoinWords(test_line)) <= max_text_width
             THEN Wrap(Tail(words), lines, test_line, font, max_text_width)
             ELSE IF current_line # <<>>
             THEN Wrap(Tail(words), Append(lines, current_line), <<word>>,
                       font, max_text_width)
             ELSE Wrap(Tail(words), Append(lines, <<word>>), <<>>,
                       font, max_text_width)

padding_x == 30

padding_y == 25

Max2(a, b) == IF a > b THEN a ELSE b

Min2(a, b) == IF a < b THEN a ELSE b

\* font, lines, panel size and panel position, as add_text_overlay computes
\* them; a line is kept as its words
TextLayout(image, words, position, has_font_file) ==
    LET font_size      == FontSize(image)
        max_text_width == MaxTextWidth(image)
        font           == LoadFont(font_size, has_font_file)
        lines          == Wrap(words, <<>>, <<>>, font, max_text_width)
        line_height    == (font_size * 13) \div 10
        total_text_height == Len(lines) * line_height
        widths         == [i \in 1..Len(lines) |-> TextWidth(font, JoinWords(lines[i]))]
        max_line_width == IF lines = <<>> THEN 0
                          ELSE CHOOSE m \in { widths[i] : i \in 1..Len(lines) } :
                                  \A i \in 1..Len(lines) : widths[i] <= m
        bg_width       == max_line_width + padding_x * 2
        bg_height      == total_text_height + padding_y * 2
        bottom_margin  == IF 10 * image.width < 7 * image.height
                          THEN (image.height * 5) \div 100
                          ELSE 50
        x0 == (image.width - bg_width) \div 2
        y0 == CASE position = "bottom" -> image.height - bg_height - bottom_margin
                [] position = "top"    -> 50
                [] OTHER               -> (image.height - bg_height) \div 2
    IN  [font_size |-> font_size, max_text_width |-> max_text_width, font |-> font,
         lines |-> lines, line_widths |-> widths, line_height |-> line_height,
         bg_width |-> bg_width, bg_height |-> bg_height,
         x |-> Max2(20, Min2(x0, image.width - bg_width - 20)),
         y |-> Max2(20, Min2(y0, image.height - bg_height - 20))]

\* the offsets of the outline stamps in the order of the two loops over
\* [-2, -1, 0, 1, 2], without (0, 0)
OutlineOffsets ==
    SelectSeq([k \in 1..25 |-> <<((k - 1) \div 5) - 2, ((k - 1) % 5) - 2>>],
              LAMBDA o : o # <<0, 0>>)

\* a bug: the main text is drawn first and the outline over it
LinePaintOpsFillFirst(i, text_x, text_y) ==
    <<[kind |-> "fill", line |-> i, x |-> text_x, y |-> text_y]>>
        \o <<[kind |-> "shadow", line |-> i, x |-> text_x + 3, y |-> text_y + 3]>>
        \o [k \in 1..Len(OutlineOffsets) |->
                [kind |-> "outline", line |-> i,
                 x |-> text_x + OutlineOffsets[k][1], y |-> text_y + OutlineOffsets[k][2]]]

\* the draw.text calls of one line: the drop shadow, the outline stamps, the
\* main text
LinePaintOps(i, text_x, text_y) ==
    <<[kind |-> "shadow", line |-> i, x |-> text_x + 3, y |-> text_y + 3]>>
        \o [k \in 1..Len(OutlineOffsets) |->
                [kind |-> "outline", line |-> i,
                 x |-> text_x + OutlineOffsets[k][1], y |-> text_y + OutlineOffsets[k][2]]]
        \o <<[kind |-> "fill", line |-> i, x |-> text_x, y |-> text_y]>>

RECURSIVE LinesPaintOps(_, _)
\* the loop over the lines, from line i on; text_y grows by line_height
LinesPaintOps(layout, i) ==
    IF i > Len(layout.lines) THEN <<>>
    ELSE LinePaintOps(i,
                      layout.x + (layout.bg_width - layout.line_widths[i]) \div 2,
                      layout.y + padding_y + (i - 1) * layout.line_height)
            \o LinesPaintOps(layout, i + 1)

\* what add_text_overlay draws on the copy, in order: draw.rectangle, then
\* the lines
PaintOps(layout) ==
    <<[kind |-> "panel", line |-> 0, x |-> layout.x, y |-> layout.y]>>
        \o LinesPaintOps(layout, 1)

\* a caller overlays a text on an image
TextOverlayCall ==
    /\ txt.st = "idle"
    /\ \E size \in TextImageSizes, words \in Texts, position \in TextPositions,
          has_font_file \in BOOLEAN :
        LET image == [src |-> "p1", width |-> size[1], height |-> size[2], layers |-> <<>>]
        IN  txt' = [st |-> "done", image |-> image, words |-> words,
                    position |-> position,
                    layout |-> TextLayout(image, words, position, has_font_file),
                    ops |-> PaintOps(TextLayout(image, words, position, has_font_file)),
                    out |-> add_text_overlay(image, JoinWords(words))]
    /\ UNCHANGED <<rz, legal, comp, lk, ct>>
    /\ UNCHANGED <<runVars, assetVars>>

InitText ==
    /\ rz = RzIdle
    /\ legal = LegalIdle
    /\ comp = CompIdle
    /\ lk = LkIdle
    /\ ct = CtIdle
    /\ txt = TxtIdle
    /\ folder = NoFolder
    /\ am = AmIdle
    /\ gen = GenIdle
    /\ RunIdle

NextText == TextOverlayCall

SpecText == InitText /\ [][NextText]_vars

\* C16: for every text and image width, every line the word-wrap produces
\* has a rendered width of at most int(0.85 * image width), except a line
\* that is one single word wider than that bound by itself.
C16_WrappedLinesFit ==
    txt.st = "done" =>
        \A i \in 1..Len(txt.layout.lines) :
            LET line  == txt.layout.lines[i]
                width == TextWidth(txt.layout.font, JoinWords(line))
                bound == (txt.image.width * 85) \div 100
            IN  /\ width = txt.layout.line_widths[i]
                /\ width <= bound \/ (Len(line) = 1 /\ width > bound)

\* on 1080 px the long word is a line of its own, wider than 918 px, and the
\* two words after it share a line within the bound
C16_Witness ==
    /\ txt.st = "done"
    /\ txt.image.width = 1080
    /\ txt.words = <<"Supercalifragilisticexpialidocious", "spring", "sale">>
    /\ txt.layout.lines = << <<"Supercalifragilisticexpialidocious">>, <<"spring", "sale">> >>
    /\ txt.layout.line_widths[1] > 918
    /\ txt.layout.line_widths[2] <= 918

\* C19: for every image size, text and position (top, bottom, center) the
\* background panel is never closer than 20 px to an image edge: x >= 20,
\* y >= 20, x + panel width <= image width - 20 and y + panel height <=
\* image height - 20.
C19_PanelKeepsMargin ==
    txt.st = "done" =>
        /\ txt.layout.x >= 20
        /\ txt.layout.y >= 20
        /\ txt.layout.x + txt.layout.bg_width <= txt.image.width - 20
        /\ txt.layout.y + txt.layout.bg_height <= txt.image.height - 20

\* C20: for every image passed to add_text_overlay the font size is 8% of
\* min(width, height) converted to an integer that is at least 1, and the
\* line height is 1.3 times that font size (as an integer).
C20_FontSizeAtLeastOne ==
    txt.st = "done" =>
        LET m == IF txt.image.width < txt.image.height
                 THEN txt.image.width ELSE txt.image.height
            f == txt.layout.font_size
            h == txt.layout.line_height
        IN  /\ f >= 1
            /\ (8 * m >= 100) => (100 * f <= 8 * m /\ 8 * m < 100 * (f + 1))
            /\ 10 * h <= 13 * f
            /\ 13 * f < 10 * (h + 1)

(***************************************************************************)
(* The scaled image of resize_for_ratio, on the calls of SpecResize.       *)
(***************************************************************************)
\* how far the scaled dimension lies under source dimension x scale, times
\* the source dimension the scale divides by (0 for the other direction)
ScaledShortfall ==
    LET w  == rz.image.width
        h  == rz.image.height
        tw == get_output_size(rz.ratio)[1]
        th == get_output_size(rz.ratio)[2]
    IN  IF w * th > tw * h
        THEN [target_met |-> rz.out.new_height = th,
              under |-> w * th - rz.out.new_width * h, unit |-> h]
        ELSE [target_met |-> rz.out.new_width = tw,
              under |-> h * tw - rz.out.new_height * w, unit |-> w]

\* C17 (as the code has it): for every source size and known ratio the
\* scaled image before the crop has one dimension equal to the target and
\* the other at most 1 px under source dimension x scale, never above it.
C17_ScaledWithinOnePixel ==
    (rz.st = "done" /\ rz.ratio \in DOMAIN OUTPUT_DIMENSIONS) =>
        /\ ScaledShortfall.target_met
        /\ ScaledShortfall.under >= 0
        /\ ScaledShortfall.under <= ScaledShortfall.unit

\* C17 (as stated): for every source size and known ratio the scaled image
\* before the crop keeps the source's aspect ratio to within rounding: one
\* dimension equals the target exactly and the other differs by less than
\* 1 px from source dimension x scale.
C17_ScaledLessThanOnePixel ==
    (rz.st = "done" /\ rz.ratio \in DOMAIN OUTPUT_DIMENSIONS) =>
        /\ ScaledShortfall.target_met
        /\ ScaledShortfall.under > -ScaledShortfall.unit
        /\ ScaledShortfall.under < ScaledShortfall.unit

\* 99x176 for 9x16: the scale is 1080 / 99, 176 x scale is 1920, and the
\* scaled height is 1919
C17_Witness ==
    /\ rz.st = "done"
    /\ rz.ratio = "9x16"
    /\ rz.image = [width |-> 99, height |-> 176]
    /\ rz.out.new_width = 1080
    /\ rz.out.new_height = 1919

(***************************************************************************)
(* The logo sprite of the composer, on the calls of SpecVariations.        *)
(***************************************************************************)
LogoSpriteWellFormed ==
    composer.logo.kind = "sprite" =>
        /\ composer.logo.width <= 150
        /\ composer.logo.height <= 150
        /\ composer.logo.width >= 1
        /\ composer.logo.height >= 1
        /\ composer.logo.mode = "RGBA"

\* C21: after construction a logo sprite that is held has a longest side of
\* at most 150 px, both sides at least 1 px, and RGBA mode, for every
\* readable logo file size; no overlay or variation call modifies it.
C21_LogoSpriteBounded ==
    /\ []LogoSpriteWellFormed
    /\ [][composer' = composer]_vars

\* a 281x281 logo was loaded as a 149x149 sprite, and a variation with the
\* logo pasted on it has been written
C21_Witness ==
    /\ composer.logo_file = LogoFile(281, 281)
    /\ composer.logo = [kind |-> "sprite", width |-> 149, height |-> 149, mode |-> "RGBA"]
    /\ \E p \in DOMAIN fs : fs[p].st = "complete" /\ HasLogoLayer(fs[p].image)

(***************************************************************************)
(* The artifact files of one pipeline run, on the runs of SpecPipeline.    *)
(***************************************************************************)
\* C22: within one pipeline run the artifact file of each (product id,
\* ratio name) pair is created exactly once and is not written again after
\* that write, for every brief: a save that opens the file finds no file of
\* this run there, and a file written to its end is not open for writing.
C22_ArtifactWrittenOnce ==
    /\ cv.st = "writing" => cv.created
    /\ cv.st \in {"save", "writing"} =>
          \A m \in 1..(cv.i - 1) :
              OutputPath(cv.product_id, cv.ratios[m]) # CvPath

(***************************************************************************)
(* The words of the wrapped lines, on the calls of SpecText.               *)
(***************************************************************************)
RECURSIVE FlattenLines(_)
\* the words of the lines, line after line
FlattenLines(lines) ==
    IF lines = <<>> THEN <<>> ELSE Head(lines) \o FlattenLines(Tail(lines))

\* C23: the word-wrap never drops, duplicates or reorders a word: the lines
\* joined with single spaces are the input's words in order, and a word that
\* alone exceeds the width bound is alone on a line of its own, wherever it
\* occurs in the text.
C23_WrapKeepsWords ==
    txt.st = "done" =>
        LET lines == txt.layout.lines
            bound == (txt.image.width * 85) \div 100
        IN  /\ FlattenLines(lines) = txt.words
            /\ JoinWords(FlattenLines(lines)) = txt.out.layers[1].text
            /\ \A i \in 1..Len(lines) :
                  /\ lines[i] # <<>>
                  /\ \A k \in 1..Len(lines[i]) :
                        TextWidth(txt.layout.font, lines[i][k]) > bound
                            => Len(lines[i]) = 1

\* the long word in the middle of three words is the second of three lines
C23_Witness ==
    /\ txt.st = "done"
    /\ txt.image.width = 1080
    /\ txt.words = <<"Go", "Supercalifragilisticexpialidocious", "sale">>
    /\ txt.layout.lines
          = << <<"Go">>, <<"Supercalifragilisticexpialidocious">>, <<"sale">> >>

(***************************************************************************)
(* The order of painting, on the calls of SpecText.                        *)
(***************************************************************************)
\* the places in the painting sequence of the operations of one kind for
\* one line
OpsAt(kind, line) ==
    { k \in 1..Len(txt.ops) : txt.ops[k].kind = kind /\ txt.ops[k].line = line }

\* C24: add_text_overlay paints back to front: the background panel is
\* drawn once, before any text, and for every line the drop shadow (offset
\* +3, +3) is drawn before all outline stamps, which are all drawn before
\* the line's main text.
C24_PaintBackToFront ==
    txt.st = "done" =>
        /\ OpsAt("panel", 0) = {1}
        /\ \A k \in 1..Len(txt.ops) : txt.ops[k].kind = "panel" => k = 1
        /\ \A i \in 1..Len(txt.layout.lines) :
              /\ Cardinality(OpsAt("shadow", i)) = 1
              /\ Cardinality(OpsAt("fill", i)) = 1
              /\ Cardinality(OpsAt("outline", i)) = 24
              /\ \A s \in OpsAt("shadow", i), o \in OpsAt("outline", i), f \in OpsAt("fill", i) :
                    /\ s < o
                    /\ o < f
                    /\ txt.ops[s].x = txt.ops[f].x + 3
                    /\ txt.ops[s].y = txt.ops[f].y + 3
                    /\ txt.ops[o] # txt.ops[f]

\* a text of two lines was painted: the panel, then 26 operations a line
C24_Witness ==
    /\ txt.st = "done"
    /\ Len(txt.layout.lines) = 2
    /\ Len(txt.ops) = 53
    /\ txt.ops[1].kind = "panel"
    /\ txt.ops[2].kind = "shadow"
    /\ txt.ops[27].kind = "fill"
    /\ txt.ops[53].kind = "fill"
    /\ txt.ops[53].line = 2
    /\ txt.ops[53].y = txt.ops[27].y + txt.layout.line_height

\* the kinds of the layers of an image, bottom first
LayerKinds(image) == [k \in 1..Len(image.layers) |-> image.layers[k].kind]

C26_CropInsideScaled ==
    (rz.st = "done" /\ rz.ratio \in DOMAIN OUTPUT_DIMENSIONS) =>
        LET o  == rz.out
            tw == get_output_size(rz.ratio)[1]
            th == get_output_size(rz.ratio)[2]
        IN  /\ o.new_width >= tw
            /\ o.new_height >= th
            /\ o.left >= 0
            /\ o.top >= 0
            /\ o.left + tw <= o.new_width
            /\ o.top + th <= o.new_height
            /\ o.left = 0 \/ o.top = 0
            /\ (o.new_width = tw /\ o.new_height = th) => (o.left = 0 /\ o.top = 0)

\* one channel term of (img_colors - color) ** 2 for a true difference d
WrappedSquare(d) == ((d % 256) * (d % 256)) % 256

MaxProducts == 2

\* extensions = ['.png', '.jpg', '.jpeg', '.webp']
Extensions == <<".png", ".jpg", ".jpeg", ".webp">>

\* self.asset_folder / f"{product_id}{ext}"
AssetPath(product_id, ext) == [name |-> product_id, ext |-> ext]

AssetIds == {"p1", "p2"}

AssetPaths == { AssetPath(id, Extensions[k]) : id \in AssetIds, k \in 1..Len(Extensions) }

\* what an asset path holds: nothing, bytes that are no image, or an image
NoFile == [kind |-> "absent"]

CorruptFile == [kind |-> "corrupt"]

AssetImage(w, h) == [kind |-> "image", width |-> w, height |-> h]

\* asset_path.exists()
Exists(file) == file.kind # "absent"

\* Image.open and verify raise for a missing or undecodable file; the size
\* must lie in 100..10000 both ways
validate_image(file) ==
    IF file.kind # "image" THEN FALSE
    ELSE IF file.width < 100 \/ file.height < 100 THEN FALSE
    ELSE IF file.width > 10000 \/ file.height > 10000 THEN FALSE
    ELSE TRUE

\* a product of the brief: product.get('id') is None without the field
Product(has_id, id) == [has_id |-> has_id, id |-> id]

\* not product_id: no id field, or an empty id
NoProductId(product) == ~product.has_id \/ product.id = ""

NotFound == [found |-> FALSE]

\* a bug: the search stops at the first file that exists, valid or not
FindAsset_StopAtFirstFile(dir, product_id, k) ==
    LET present == { j \in k..Len(Extensions) : Exists(dir[AssetPath(product_id, Extensions[j])]) }
        first   == CHOOSE j \in present : \A m \in present : j <= m
    IN  IF present = {} \/ ~validate_image(dir[AssetPath(product_id, Extensions[first])])
        THEN NotFound
        ELSE [found |-> TRUE, path |-> AssetPath(product_id, Extensions[first])]

\* the loop over the extensions from the k-th on: the first path that exists
\* and validates ends it
RECURSIVE FindAsset(_, _, _)
FindAsset(dir, product_id, k) ==
    IF k > Len(Extensions) THEN NotFound
    ELSE LET asset_path == AssetPath(product_id, Extensions[k])
         IN  IF Exists(dir[asset_path]) /\ validate_image(dir[asset_path])
             THEN [found |-> TRUE, path |-> asset_path]
             ELSE FindAsset(dir, product_id, k + 1)

\* the loop over the products from the i-th on, with the dict and the list
\* built so far
RECURSIVE CheckLoop(_, _, _, _, _)
CheckLoop(dir, products, i, existing, missing) ==
    IF i > Len(products) THEN [existing |-> existing, missing |-> missing]
    ELSE LET product == products[i]
             hit     == FindAsset(dir, product.id, 1)
         IN  IF NoProductId(product)
             THEN CheckLoop(dir, products, i + 1, existing, missing)
             ELSE IF hit.found
             THEN CheckLoop(dir, products, i + 1,
                            (product.id :> hit.path) @@ existing, missing)
             ELSE CheckLoop(dir, products, i + 1, existing, Append(missing, product))

check_existing_assets(dir, products) == CheckLoop(dir, products, 1, <<>>, <<>>)

\* the products a brief can list: with an id, with an empty id, with no id
ProductChoices ==
    { Product(TRUE, id) : id \in AssetIds \cup {""} } \cup { Product(FALSE, "") }

ProductLists == UNION { [1..n -> ProductChoices] : n \in 0..MaxProducts }

\* the files found under the first product's names, and under <p2>.png
FirstProductFiles == {NoFile, AssetImage(99, 100), AssetImage(100, 100)}

SecondProductFiles ==
    {NoFile, CorruptFile, AssetImage(99, 100), AssetImage(100, 99), AssetImage(100, 100),
     AssetImage(10000, 10000), AssetImage(10001, 100), AssetImage(100, 10001)}

AssetFolders ==
    { [p \in AssetPaths |->
          IF p.name = "p1" THEN one[p.ext]
          ELSE IF p.ext = ".png" THEN two ELSE NoFile] :
        one \in [{ Extensions[k] : k \in 1..Len(Extensions) } -> FirstProductFiles],
        two \in SecondProductFiles }

\* a caller asks which products have an asset
CheckAssetsCall ==
    /\ am.st = "idle"
    /\ \E products \in ProductLists :
          am' = [st |-> "checked", products |-> products,
                 out |-> check_existing_assets(folder, products)]
    /\ UNCHANGED <<folder, gen>>
    /\ UNCHANGED <<pureVars, runVars>>

\* what the image URL serves: a generated image, an image too small to be
\* an asset, or bytes that are no image
DownloadContents == {AssetImage(1024, 576), AssetImage(64, 64), CorruptFile}

\* save_path = self.asset_folder / f"{product_id}.png"
SavePath(product_id) == AssetPath(product_id, ".png")

\* a caller hands save_generated_image an image URL and a product id
SaveBegin ==
    /\ am.st = "idle"
    /\ \E product_id \in AssetIds, content \in DownloadContents :
          am' = [st |-> "download", product_id |-> product_id, content |-> content,
                 before |-> folder[SavePath(product_id)], opened |-> FALSE,
                 err |-> "none"]
    /\ UNCHANGED <<folder, gen>>
    /\ UNCHANGED <<pureVars, runVars>>

\* except ...: log and raise
SaveRaise(call, e) == [call EXCEPT !.st = "raised", !.err = e]

\* requests.get and raise_for_status succeed
SaveDownloadOk ==
    /\ am.st = "download"
    /\ am' = [am EXCEPT !.st = "open"]
    /\ UNCHANGED <<folder, gen>>
    /\ UNCHANGED <<pureVars, runVars>>

\* the request times out or fails, or the status is an error
SaveDownloadFail ==
    /\ am.st = "download"
    /\ am' = SaveRaise(am, "RequestException")
    /\ UNCHANGED <<folder, gen>>
    /\ UNCHANGED <<pureVars, runVars>>

\* open(save_path, 'wb'): the file is created, or cut to length 0
SaveOpen ==
    /\ am.st = "open"
    /\ folder' = [folder EXCEPT ![SavePath(am.product_id)] = CorruptFile]
    /\ am' = [am EXCEPT !.st = "write", !.opened = TRUE]
    /\ UNCHANGED gen
    /\ UNCHANGED <<pureVars, runVars>>

\* the file cannot be opened for writing
SaveOpenFail ==
    /\ am.st = "open"
    /\ am' = SaveRaise(am, "OSError")
    /\ UNCHANGED <<folder, gen>>
    /\ UNCHANGED <<pureVars, runVars>>

\* f.write(response.content) and the close at the end of the with block
SaveWrite ==
    /\ am.st = "write"
    /\ folder' = [folder EXCEPT ![SavePath(am.product_id)] = am.content]
    /\ am' = [am EXCEPT !.st = "validate"]
    /\ UNCHANGED gen
    /\ UNCHANGED <<pureVars, runVars>>

\* the write fails part way (the disk is full): the file stays as far as it
\* was written
SaveWriteFail ==
    /\ am.st = "write"
    /\ am' = SaveRaise(am, "OSError")
    /\ UNCHANGED <<folder, gen>>
    /\ UNCHANGED <<pureVars, runVars>>

\* a bug: the invalid file is left where it was written
AfterFailedValidation_Keep(file) == file

\* save_path.unlink()
AfterFailedValidation(file) == NoFile

\* if self.validate_image(save_path): return save_path
SaveValidateOk ==
    /\ am.st = "validate"
    /\ validate_image(folder[SavePath(am.product_id)])
    /\ am' = [am EXCEPT !.st = "returned"]
    /\ UNCHANGED <<folder, gen>>
    /\ UNCHANGED <<pureVars, runVars>>

\* else: unlink and raise ValueError
SaveValidateFail ==
    /\ am.st = "validate"
    /\ ~validate_image(folder[SavePath(am.product_id)])
    /\ folder' = [folder EXCEPT ![SavePath(am.product_id)] = AfterFailedValidation(@)]
    /\ am' = SaveRaise(am, "ValueError")
    /\ UNCHANGED gen
    /\ UNCHANGED <<pureVars, runVars>>

SaveStep ==
    \/ SaveDownloadOk
    \/ SaveDownloadFail
    \/ SaveOpen
    \/ SaveOpenFail
    \/ SaveWrite
    \/ SaveWriteFail
    \/ SaveValidateOk
    \/ SaveValidateFail

InitAssets ==
    /\ rz = RzIdle
    /\ legal = LegalIdle
    /\ comp = CompIdle
    /\ lk = LkIdle
    /\ ct = CtIdle
    /\ txt = TxtIdle
    /\ RunIdle
    /\ folder \in AssetFolders
    /\ am = AmIdle
    /\ gen = GenIdle

NextAssets == CheckAssetsCall \/ SaveBegin \/ SaveStep

SpecAssets == InitAssets /\ [][NextAssets]_vars

\* the positions of the missing list that hold the product
MissingAt(product) == { j \in 1..Len(am.out.missing) : am.out.missing[j] = product }

\* the extensions under which a validated file of the product exists
ValidExtensions(product_id) ==
    { k \in 1..Len(Extensions) : validate_image(folder[AssetPath(product_id, Extensions[k])]) }

\* C28: check_existing_assets partitions the products that have an id: each
\* is in exactly one of the existing map and the missing list; it is in the
\* map iff a validated file <id>.png/.jpg/.jpeg/.webp exists, the map then
\* holds the first valid one in that order (an invalid file under an earlier
\* extension does not block a later valid one); products without an id are
\* in neither.
C28_AssetsPartition ==
    am.st = "checked" =>
        LET existing == am.out.existing
            missing  == am.out.missing
        IN  /\ \A i \in 1..Len(am.products) :
                  LET product == am.products[i]
                  IN  IF NoProductId(product)
                      THEN MissingAt(product) = {}
                      ELSE /\ (product.id \in DOMAIN existing) <=> (MissingAt(product) = {})
                           /\ (product.id \in DOMAIN existing) <=> (ValidExtensions(product.id) # {})
                           /\ product.id \in DOMAIN existing =>
                                 \E k \in ValidExtensions(product.id) :
                                     /\ existing[product.id] = AssetPath(product.id, Extensions[k])
                                     /\ \A m \in ValidExtensions(product.id) : k <= m
            /\ \A id \in DOMAIN existing :
                  \E i \in 1..Len(am.products) :
                      ~NoProductId(am.products[i]) /\ am.products[i].id = id
            /\ \A j \in 1..Len(missing) :
                  /\ ~NoProductId(missing[j])
                  /\ \E i \in 1..Len(am.products) : am.products[i] = missing[j]
            /\ Len(missing) =
                  Cardinality({ i \in 1..Len(am.products) :
                                  /\ ~NoProductId(am.products[i])
                                  /\ am.products[i].id \notin DOMAIN existing })

\* p1.png is too small and p1.jpg is valid, p2.png is no image: p1 is in the
\* map under p1.jpg and p2 is missing
C28_Witness ==
    /\ am.st = "checked"
    /\ am.products = <<Product(TRUE, "p1"), Product(TRUE, "p2")>>
    /\ folder[AssetPath("p1", ".png")] = AssetImage(99, 100)
    /\ folder[AssetPath("p1", ".jpg")] = AssetImage(100, 100)
    /\ folder[AssetPath("p2", ".png")] = CorruptFile
    /\ DOMAIN am.out.existing = {"p1"}
    /\ am.out.existing["p1"] = AssetPath("p1", ".jpg")
    /\ am.out.missing = <<Product(TRUE, "p2")>>

\* the file at the path the save_generated_image call writes
SavedFile == folder[SavePath(am.product_id)]

\* C30 (returned, validation failed, download failed): save_generated_image
\* returns only the path of a file that passed validate_image; when the
\* downloaded content fails validation the file just written is deleted
\* before the error is raised; when the download fails no file is written.
C30_SaveReturnsValidOrRaises ==
    /\ am.st = "returned" => (validate_image(SavedFile) /\ SavedFile = am.content)
    /\ (am.st = "raised" /\ am.err = "ValueError") => SavedFile = NoFile
    /\ (am.st = "raised" /\ am.err = "RequestException") =>
          (~am.opened /\ SavedFile = am.before)

MaxMissing == 4

\* ThreadPoolExecutor(max_workers=3)
max_workers == 3

GenIds == { "p" \o ToString(i) : i \in 1..MaxMissing }

\* the missing products p1..pn of a brief: their ids are distinct
MissingList(n) == [i \in 1..n |-> "p" \o ToString(i)]

GenPaths == { AssetPath(id, ".png") : id \in GenIds }

\* the image a successful generation saves
GeneratedImage == AssetImage(1024, 576)

\* a bug: a failure leaves generate_single_image as an exception
generate_single_image_Raises(product_id, outcome) ==
    IF outcome = "ok"
    THEN [raised |-> FALSE, product_id |-> product_id, saved |-> TRUE,
          saved_path |-> SavePath(product_id)]
    ELSE [raised |-> TRUE, product_id |-> product_id, saved |-> FALSE]

\* (product_id, saved_path), or (product_id, None) when the prompt, the image
\* request or the save raised an Exception
generate_single_image(product_id, outcome) ==
    IF outcome = "ok"
    THEN [raised |-> FALSE, product_id |-> product_id, saved |-> TRUE,
          saved_path |-> SavePath(product_id)]
    ELSE [raised |-> FALSE, product_id |-> product_id, saved |-> FALSE]

\* what a generation leaves in the asset folder
FolderAfterGeneration(dir, product_id, outcome) ==
    IF outcome = "ok" THEN [dir EXCEPT ![SavePath(product_id)] = GeneratedImage]
    ELSE dir

\* the main thread takes one result: if saved_path: the map and the three
\* counters are updated; an exception of the call leaves step 4
MergeResult(g, result) ==
    IF result.raised THEN [g EXCEPT !.st = "raised"]
    ELSE IF result.saved
    THEN [g EXCEPT !.existing_assets = (result.product_id :> result.saved_path) @@ @,
                   !.generated_count = @ + 1,
                   !.gpt4_calls = @ + 1,
                   !.flux_calls = @ + 1]
    ELSE g

\* if missing_products and not args.skip_generation:
\*     if args.parallel and len(missing_products) > 1: every product is
\*     submitted to the pool; else the products are taken one by one
GenStart ==
    /\ gen.st = "start"
    /\ gen' = IF gen.missing # <<>> /\ ~gen.skip_generation
              THEN IF gen.parallel /\ Len(gen.missing) > 1
                   THEN [gen EXCEPT !.st = "pool"]
                   ELSE [gen EXCEPT !.st = "sequential"]
              ELSE [gen EXCEPT !.st = "done"]
    /\ UNCHANGED <<folder, am>>
    /\ UNCHANGED <<pureVars, runVars>>

\* the workers that hold a task
ActiveWorkers == { id \in GenIds : gen.future[id] \in {"running", "computed"} }

\* a free worker takes the task submitted first among those waiting
WorkerStart ==
    /\ gen.st = "pool"
    /\ Cardinality(ActiveWorkers) < max_workers
    /\ \E i \in 1..Len(gen.missing) :
          /\ gen.future[gen.missing[i]] = "pending"
          /\ \A j \in 1..(i - 1) : gen.future[gen.missing[j]] # "pending"
          /\ gen' = [gen EXCEPT !.future[gen.missing[i]] = "running"]
    /\ UNCHANGED <<folder, am>>
    /\ UNCHANGED <<pureVars, runVars>>

\* a worker runs generate_single_image for its product
WorkerRun ==
    /\ gen.st = "pool"
    /\ \E id \in GenIds :
          /\ gen.future[id] = "running"
          /\ folder' = FolderAfterGeneration(folder, id, gen.outcome[id])
          /\ gen' = [gen EXCEPT !.future[id] = "computed",
                                !.result[id] = generate_single_image(id, gen.outcome[id])]
    /\ UNCHANGED am
    /\ UNCHANGED <<pureVars, runVars>>

\* the worker hands its result to the future and is free again
WorkerReturn ==
    /\ gen.st = "pool"
    /\ \E id \in GenIds :
          /\ gen.future[id] = "computed"
          /\ gen' = [gen EXCEPT !.future[id] = "done"]
    /\ UNCHANGED <<folder, am>>
    /\ UNCHANGED <<pureVars, runVars>>

\* the future of the product is taken while one submitted before it is not
TakenBeforeEarlier(id) ==
    \E i, j \in 1..Len(gen.missing) :
        j < i /\ gen.missing[i] = id /\ gen.missing[j] \notin gen.merged

\* for future in as_completed(...): the main thread takes a finished future
\* it has not taken yet
MainMerge ==
    /\ gen.st = "pool"
    /\ \E id \in GenIds :
          /\ gen.future[id] = "done"
          /\ id \notin gen.merged
          /\ gen' = MergeResult([gen EXCEPT !.merged = @ \cup {id},
                                            !.reordered = @ \/ TakenBeforeEarlier(id)],
                                 gen.result[id])
    /\ UNCHANGED <<folder, am>>
    /\ UNCHANGED <<pureVars, runVars>>

\* every future was taken: the pool is shut down
PoolEnd ==
    /\ gen.st = "pool"
    /\ gen.merged = { gen.missing[i] : i \in 1..Len(gen.missing) }
    /\ gen' = [gen EXCEPT !.st = "done"]
    /\ UNCHANGED <<folder, am>>
    /\ UNCHANGED <<pureVars, runVars>>

\* for product in missing_products: the call and the update, in the main thread
SequentialStep ==
    /\ gen.st = "sequential"
    /\ gen.i <= Len(gen.missing)
    /\ LET id == gen.missing[gen.i]
       IN  /\ folder' = FolderAfterGeneration(folder, id, gen.outcome[id])
           /\ gen' = MergeResult([gen EXCEPT !.i = @ + 1, !.merged = @ \cup {id}],
                                 generate_single_image(id, gen.outcome[id]))
    /\ UNCHANGED am
    /\ UNCHANGED <<pureVars, runVars>>

SequentialEnd ==
    /\ gen.st = "sequential"
    /\ gen.i > Len(gen.missing)
    /\ gen' = [gen EXCEPT !.st = "done"]
    /\ UNCHANGED <<folder, am>>
    /\ UNCHANGED <<pureVars, runVars>>

\* the assets check_existing_assets found before step 4
FoundBefore == { <<>>, ("e1" :> AssetPath("e1", ".jpg")) }

\* main before step 4: the flags, the missing products, what each generation
\* will come to, the map of the assets found, the counters at 0
InitGeneration ==
    /\ rz = RzIdle
    /\ legal = LegalIdle
    /\ comp = CompIdle
    /\ lk = LkIdle
    /\ ct = CtIdle
    /\ txt = TxtIdle
    /\ RunIdle
    /\ folder = [p \in GenPaths |-> NoFile]
    /\ am = AmIdle
    /\ \E n \in 0..MaxMissing, parallel \in BOOLEAN, skip \in BOOLEAN,
          found \in FoundBefore, outcome \in [GenIds -> {"ok", "failed"}] :
          /\ \A id \in GenIds : (\A i \in 1..n : MissingList(n)[i] # id) => outcome[id] = "failed"
          /\ gen = [st |-> "start", parallel |-> parallel, skip_generation |-> skip,
                    missing |-> MissingList(n), outcome |-> outcome,
                    found |-> found, existing_assets |-> found,
                    generated_count |-> 0, gpt4_calls |-> 0, flux_calls |-> 0,
                    future |-> [id \in GenIds |->
                                  IF \E i \in 1..n : MissingList(n)[i] = id
                                  THEN "pending" ELSE "none"],
                    result |-> [id \in GenIds |-> [raised |-> FALSE, product_id |-> id,
                                                   saved |-> FALSE]],
                    merged |-> {}, reordered |-> FALSE, i |-> 1]

NextGeneration ==
    \/ GenStart
    \/ WorkerStart
    \/ WorkerRun
    \/ WorkerReturn
    \/ MainMerge
    \/ PoolEnd
    \/ SequentialStep
    \/ SequentialEnd

SpecGeneration == InitGeneration /\ [][NextGeneration]_vars

\* the ids of the missing products
MissingIds == { gen.missing[i] : i \in 1..Len(gen.missing) }

\* the sequential path run from the i-th product on, on the state g of main
RECURSIVE SequentialLoop(_, _)
SequentialLoop(g, i) ==
    IF i > Len(g.missing) THEN g
    ELSE SequentialLoop(
            MergeResult(g, generate_single_image(g.missing[i], g.outcome[g.missing[i]])),
            i + 1)

\* what the sequential path makes of the products and outcomes of this run
SequentialOutcome ==
    IF gen.missing = <<>> \/ gen.skip_generation THEN
        [existing_assets |-> gen.found, generated_count |-> 0,
         gpt4_calls |-> 0, flux_calls |-> 0]
    ELSE LET g == SequentialLoop([gen EXCEPT !.existing_assets = gen.found,
                                             !.generated_count = 0,
                                             !.gpt4_calls = 0, !.flux_calls = 0], 1)
         IN  [existing_assets |-> g.existing_assets, generated_count |-> g.generated_count,
              gpt4_calls |-> g.gpt4_calls, flux_calls |-> g.flux_calls]

\* the products taken so far whose generation saved an image
SavedSoFar == { id \in gen.merged : gen.outcome[id] = "ok" }

\* the map, the count and the call counters hold what was taken so far, and
\* at the end of step 4 what the sequential path gives; no failure ends step 4
GenerationAsSequential ==
    /\ gen.st # "raised"
    /\ gen.st \in {"pool", "sequential", "done"} =>
          /\ gen.existing_assets =
                [id \in SavedSoFar |-> SavePath(id)] @@ gen.found
          /\ gen.generated_count = Cardinality(SavedSoFar)
          /\ gen.gpt4_calls = Cardinality(SavedSoFar)
          /\ gen.flux_calls = Cardinality(SavedSoFar)
    /\ gen.st = "done" =>
          /\ gen.existing_assets = SequentialOutcome.existing_assets
          /\ gen.generated_count = SequentialOutcome.generated_count
          /\ gen.gpt4_calls = SequentialOutcome.gpt4_calls
          /\ gen.flux_calls = SequentialOutcome.flux_calls
          /\ (gen.missing # <<>> /\ ~gen.skip_generation) => gen.merged = MissingIds

\* a step of a worker leaves the map and the counters alone: they change only
\* when the main thread takes a result
CountersByMainThread ==
    (gen.st = "pool" /\ gen'.future # gen.future) =>
        /\ gen'.existing_assets = gen.existing_assets
        /\ gen'.generated_count = gen.generated_count
        /\ gen'.gpt4_calls = gen.gpt4_calls
        /\ gen'.flux_calls = gen.flux_calls

\* C29: for products with distinct ids and given per-product outcomes the
\* --parallel path (a pool of 3 workers, results taken as they complete) ends
\* under every interleaving with the same existing_assets map, generated_count
\* and call counters as the sequential path; a failed generation does not
\* abort the others, and only the main thread updates the map and counters.
C29_ParallelAsSequential ==
    /\ []GenerationAsSequential
    /\ [][CountersByMainThread]_vars

\* four products in the pool, the first generation failed, the others saved,
\* and a result was taken before that of a product submitted earlier
C29_Witness ==
    /\ gen.st = "done"
    /\ gen.parallel
    /\ Len(gen.missing) = MaxMissing
    /\ gen.outcome["p1"] = "failed"
    /\ gen.reordered
    /\ gen.generated_count = MaxMissing - 1
    /\ DOMAIN gen.existing_assets = MissingIds \ {"p1"}

====
